---- MODULE Spec2Model ----
(***************************************************************************)
(* rendermaid: the SVG renderer's layout cache, layer assignment, axis     *)
(* placement and orthogonal edge routing (src/lib/renderers.ts).           *)
(*                                                                         *)
(* Numbers.  The source computes with JavaScript numbers.  Every length    *)
(* here is an integer count of 1/Scale pixel; the inputs are chosen so     *)
(* that every halving and every product by 0.6, 1.4 or 1.5 in the source   *)
(* is exact on that grid.                                                  *)
(* A label is represented by its length: the layout reads a label only     *)
(* through text.length and through its truthiness.                         *)
(***************************************************************************)
EXTENDS Integers, Sequences, FiniteSets, TLC

\* Fixed-point grid: one unit is 1/20 pixel.
Scale == 20

Px(n) == n * Scale

Max(a, b) == IF a >= b THEN a ELSE b
Abs(a) == IF a >= 0 THEN a ELSE -a

\* ---- LAYOUT and RENDERING constant groups (pixels) ----
MIN_NODE_GAP == 40
INITIAL_LAYER_OFFSET == 60
CANVAS_PADDING == 60
\* LAYER_SPACING_MULTIPLIER is 1.5, kept as the fraction 3/2.
LAYER_SPACING_MULTIPLIER_NUM == 3
LAYER_SPACING_MULTIPLIER_DEN == 2

NODE_TEXT_PADDING == 16
NODE_FONT_SIZE == 12
MIN_NODE_WIDTH == 60
MIN_NODE_HEIGHT == 30
COLLISION_PADDING == 15
COLLISION_AVOIDANCE_OFFSET == 40
PORT_OFFSET == 2
MAX_COLLISION_RETRIES == 3
SAME_LAYER_TOLERANCE == 10
ALIGNED_TOLERANCE == 2

\* ---- sequences ----
Range(s) == { s[i] : i \in 1..Len(s) }

RECURSIVE Flatten(_)
Flatten(ss) == IF ss = <<>> THEN <<>> ELSE Head(ss) \o Flatten(Tail(ss))

\* ---- the AST as the layout reads it ----
\* ast.nodes is a Map in insertion order: a sequence of [id, len, shape]
\* with distinct ids.  ast.edges is a sequence of [from, to].
NodeIds(ast) == { ast.nodes[i].id : i \in 1..Len(ast.nodes) }

HasNode(ast, id) == id \in NodeIds(ast)

GetNode(ast, id) == ast.nodes[CHOOSE i \in 1..Len(ast.nodes) : ast.nodes[i].id = id]

\* estimateTextWidth: text.length * fontSize * 0.6
estimateTextWidth(len, fontSize) == (len * fontSize * 6 * Scale) \div 10

\* Floor of the square root.
RECURSIVE ISqrtFrom(_, _)
ISqrtFrom(n, r) == IF (r + 1) * (r + 1) > n THEN r ELSE ISqrtFrom(n, r + 1)

RECURSIVE ISqrt(_)
ISqrt(n) ==
  IF n < 4 THEN ISqrtFrom(n, 0)
  ELSE LET h == 2 * ISqrt(n \div 4) IN ISqrtFrom(n, h)

\* Math.sqrt(w*w + h*h) / 2 + 5 on the grid, rounded down to an even
\* number of units (so that the radius can be halved again exactly).
CircleRadius(requiredWidth, minHeight) ==
  2 * (ISqrt(requiredWidth * requiredWidth + minHeight * minHeight) \div 4) + Px(5)

calculateNodeDimensions(len, shape) ==
  IF len = 0 THEN
    CASE shape = "circle" ->
           [width |-> Px(MIN_NODE_WIDTH), height |-> Px(MIN_NODE_WIDTH),
            radius |-> Px(MIN_NODE_WIDTH) \div 2]
      [] shape = "rhombus" -> [width |-> Px(80), height |-> Px(40), radius |-> 0]
      [] shape = "stadium" -> [width |-> Px(100), height |-> Px(40), radius |-> 0]
      [] shape = "hexagon" -> [width |-> Px(90), height |-> Px(40), radius |-> 0]
      [] OTHER -> [width |-> Px(80), height |-> Px(40), radius |-> 0]
  ELSE
    LET textWidth == estimateTextWidth(len, NODE_FONT_SIZE)
        requiredWidth == Max(Px(MIN_NODE_WIDTH), textWidth + Px(NODE_TEXT_PADDING))
        minHeight == Px(MIN_NODE_HEIGHT)
    IN CASE shape = "circle" ->
              LET radius == Max(Px(25), CircleRadius(requiredWidth, minHeight))
              IN [width |-> radius * 2, height |-> radius * 2, radius |-> radius]
         [] shape = "rhombus" ->
              [width |-> Max(Px(80), (requiredWidth * 14) \div 10),
               height |-> Max(Px(40), minHeight + Px(10)), radius |-> 0]
         [] shape = "stadium" ->
              [width |-> Max(Px(100), requiredWidth + Px(20)),
               height |-> Max(Px(40), minHeight + Px(10)), radius |-> 0]
         [] OTHER ->
              [width |-> Max(Px(MIN_NODE_WIDTH), requiredWidth),
               height |-> Max(minHeight, minHeight + Px(10)), radius |-> 0]

\* nodeDims: node?.label ?? "", node?.shape ?? "rectangle"
nodeDims(ast, nodeId) ==
  IF HasNode(ast, nodeId)
  THEN calculateNodeDimensions(GetNode(ast, nodeId).len, GetNode(ast, nodeId).shape)
  ELSE calculateNodeDimensions(0, "rectangle")


\* ---- layer assignment (optimizedCalculateLayout, first half) ----
RECURSIVE CountTo(_, _)
CountTo(edges, id) ==
  IF edges = <<>> THEN 0
  ELSE (IF Head(edges).to = id THEN 1 ELSE 0) + CountTo(Tail(edges), id)

\* inDegree after the two forEach passes: 0 for every node, plus one per
\* edge for the edge's target (a target that is no node gets an entry too).
inDegreeOf(ast) ==
  [id \in NodeIds(ast) \cup { ast.edges[i].to : i \in 1..Len(ast.edges) } |->
     CountTo(ast.edges, id)]

\* outNodes.get(id): the targets of the edges leaving a node, in edge order;
\* an id that is no node has no entry (the optional chaining skips it).
RECURSIVE TargetsFrom(_, _)
TargetsFrom(edges, id) ==
  IF edges = <<>> THEN <<>>
  ELSE (IF Head(edges).from = id THEN <<Head(edges).to>> ELSE <<>>)
         \o TargetsFrom(Tail(edges), id)

outNodesOf(ast, id) == IF HasNode(ast, id) THEN TargetsFrom(ast.edges, id) ELSE <<>>

\* A forEach that queues every unvisited child, whatever its in-degree.
RECURSIVE visitChildren_ignoreInDegree(_, _)
visitChildren_ignoreInDegree(st, children) ==
  IF children = <<>> THEN st
  ELSE visitChildren_ignoreInDegree(
         [st EXCEPT !.queue = IF Head(children) \notin st.visited
                              THEN Append(@, Head(children)) ELSE @],
         Tail(children))

\* The forEach over the children of a node that has just been visited.
RECURSIVE visitChildren(_, _)
visitChildren(st, children) ==
  IF children = <<>> THEN st
  ELSE LET childId == Head(children)
           cur == st.inDegree[childId]
           newInDegree == (IF cur = 0 THEN 1 ELSE cur) - 1
           push == newInDegree = 0 /\ childId \notin st.visited
       IN visitChildren(
            [st EXCEPT !.inDegree = [@ EXCEPT ![childId] = newInDegree],
                       !.queue = IF push THEN Append(@, childId) ELSE @],
            Tail(children))

\* The inner for loop: currentLayerSize shifts from the queue.
RECURSIVE processRound(_, _, _)
processRound(ast, st, remainingInRound) ==
  IF remainingInRound = 0 THEN st
  ELSE LET nodeId == Head(st.queue)
           shifted == [st EXCEPT !.queue = Tail(@)]
       IN IF nodeId \in st.visited
          THEN processRound(ast, shifted, remainingInRound - 1)
          ELSE processRound(ast,
                 visitChildren(
                   [shifted EXCEPT !.visited = @ \cup {nodeId},
                                   !.currentLayer = Append(@, nodeId)],
                   outNodesOf(ast, nodeId)),
                 remainingInRound - 1)

\* The while loop over the queue.
RECURSIVE bfsLoop(_, _)
bfsLoop(ast, st) ==
  IF st.queue = <<>> THEN st
  ELSE LET r == processRound(ast, [st EXCEPT !.currentLayer = <<>>], Len(st.queue))
       IN bfsLoop(ast,
            [r EXCEPT !.layers = IF r.currentLayer # <<>>
                                 THEN Append(@, r.currentLayer) ELSE @])

RECURSIVE FilterNodeIds(_, _, _)
FilterNodeIds(nodes, inDegree, wanted) ==
  IF nodes = <<>> THEN <<>>
  ELSE (IF inDegree[Head(nodes).id] = wanted THEN <<Head(nodes).id>> ELSE <<>>)
         \o FilterNodeIds(Tail(nodes), inDegree, wanted)

\* A queue that always starts with the first node alone.
initialQueue_firstOnly(ast) ==
  IF Len(ast.nodes) > 0 THEN <<ast.nodes[1].id>> ELSE <<>>

\* The queue before the while loop: the nodes without incoming edge, or the
\* first node when there is none.
initialQueue(ast) ==
  LET sources == FilterNodeIds(ast.nodes, inDegreeOf(ast), 0)
  IN IF sources = <<>> /\ Len(ast.nodes) > 0 THEN <<ast.nodes[1].id>> ELSE sources

\* A filter that lists the unvisited nodes last to first.
RECURSIVE remainingNodes_reversed(_, _)
remainingNodes_reversed(nodes, visited) ==
  IF nodes = <<>> THEN <<>>
  ELSE remainingNodes_reversed(Tail(nodes), visited)
         \o (IF Head(nodes).id \notin visited THEN <<Head(nodes).id>> ELSE <<>>)

RECURSIVE remainingNodes(_, _)
remainingNodes(nodes, visited) ==
  IF nodes = <<>> THEN <<>>
  ELSE (IF Head(nodes).id \notin visited THEN <<Head(nodes).id>> ELSE <<>>)
         \o remainingNodes(Tail(nodes), visited)

\* A layering that forgets the nodes the traversal never visited.
assignLayers_noRemaining(ast) ==
  bfsLoop(ast, [queue |-> initialQueue(ast), visited |-> {},
                inDegree |-> inDegreeOf(ast), layers |-> <<>>,
                currentLayer |-> <<>>]).layers

\* layers: the BFS layers, then one layer with the nodes never visited.
assignLayers(ast) ==
  LET st == bfsLoop(ast, [queue |-> initialQueue(ast), visited |-> {},
                          inDegree |-> inDegreeOf(ast), layers |-> <<>>,
                          currentLayer |-> <<>>])
      remaining == remainingNodes(ast.nodes, st.visited)
  IN IF remaining # <<>> THEN Append(st.layers, remaining) ELSE st.layers

\* ---- axis placement (optimizedCalculateLayout, second half) ----
isHorizontalDir(direction) == direction = "LR" \/ direction = "RL"

layerDimOf(direction, dims) == IF isHorizontalDir(direction) THEN dims.width ELSE dims.height
nodeDimOf(direction, dims) == IF isHorizontalDir(direction) THEN dims.height ELSE dims.width

centerValue(direction, config) ==
  IF isHorizontalDir(direction) THEN Px(config.height) \div 2 ELSE Px(config.width) \div 2

RECURSIVE maxLayerSizeOf(_, _)
maxLayerSizeOf(ast, layer) ==
  IF layer = <<>> THEN 0
  ELSE Max(layerDimOf(ast.direction, nodeDims(ast, Head(layer))),
           maxLayerSizeOf(ast, Tail(layer)))

\* needed: what the i-th node of a layer must keep from the one before it.
neededGap(ast, layer, i) ==
  nodeDimOf(ast.direction, nodeDims(ast, layer[i - 1])) \div 2 + Px(MIN_NODE_GAP)
    + nodeDimOf(ast.direction, nodeDims(ast, layer[i])) \div 2

\* offsets.push(offsets[i - 1] + step)
pushOffset(offs, step) == Append(offs, offs[Len(offs)] + step)

\* Offsets that step by nodeSpacing alone, whatever the nodes' sizes.
offsets_spacingOnly(ast, config, layer, n) ==
  [k \in 1..n |-> (k - 1) * Px(config.nodeSpacing)]

\* offsets: the cumulative offsets of the first n nodes of a layer.
RECURSIVE offsets(_, _, _, _)
offsets(ast, config, layer, n) ==
  IF n = 1 THEN <<0>>
  ELSE pushOffset(offsets(ast, config, layer, n - 1),
                  Max(Px(config.nodeSpacing), neededGap(ast, layer, n)))

\* The positions of a layer from its offsets.
positionsFrom(direction, center, layerCoord, offs) ==
  LET totalSpan == offs[Len(offs)]
      startNode == center - totalSpan \div 2
  IN [i \in 1..Len(offs) |->
        IF isHorizontalDir(direction)
        THEN [x |-> layerCoord, y |-> startNode + offs[i]]
        ELSE [x |-> startNode + offs[i], y |-> layerCoord]]

\* The positions of one layer, given its layer coordinate.
layerPositions(ast, config, layer, layerCoord) ==
  positionsFrom(ast.direction, centerValue(ast.direction, config), layerCoord,
                offsets(ast, config, layer, Len(layer)))

RECURSIVE foldMaxX(_, _, _, _)
foldMaxX(direction, poss, maxLayerSize, acc) ==
  IF poss = <<>> THEN acc
  ELSE foldMaxX(direction, Tail(poss), maxLayerSize,
         Max(acc, IF isHorizontalDir(direction)
                  THEN Head(poss).x + maxLayerSize \div 2 + Px(MIN_NODE_GAP)
                  ELSE Head(poss).x + Px(CANVAS_PADDING)))

RECURSIVE foldMaxY(_, _)
foldMaxY(poss, acc) ==
  IF poss = <<>> THEN acc
  ELSE foldMaxY(Tail(poss), Max(acc, Head(poss).y + Px(CANVAS_PADDING)))

\* An iteration that never advances the layer offset.
layerStep_noAdvance(direction, config, acc, layer, poss, maxLayerSize, nextMaxSize, isLast) ==
  [layout |-> [id \in DOMAIN acc.layout \cup Range(layer) |->
                 IF id \in Range(layer)
                 THEN poss[CHOOSE i \in 1..Len(layer) : layer[i] = id]
                 ELSE acc.layout[id]],
   maxX |-> foldMaxX(direction, poss, maxLayerSize, acc.maxX),
   maxY |-> foldMaxY(poss, acc.maxY),
   layerOffset |-> acc.layerOffset]

\* What one iteration of the loop over the layers leaves: the layout with the
\* layer's positions, maxX, maxY and the offset of the next layer.
layerStep(direction, config, acc, layer, poss, maxLayerSize, nextMaxSize, isLast) ==
  LET layerCoord == acc.layerOffset + maxLayerSize \div 2
      advance == Max((Px(config.nodeSpacing) * LAYER_SPACING_MULTIPLIER_NUM)
                       \div LAYER_SPACING_MULTIPLIER_DEN,
                     maxLayerSize \div 2 + Px(MIN_NODE_GAP) + nextMaxSize \div 2)
  IN [layout |-> [id \in DOMAIN acc.layout \cup Range(layer) |->
                    IF id \in Range(layer)
                    THEN poss[CHOOSE i \in 1..Len(layer) : layer[i] = id]
                    ELSE acc.layout[id]],
      maxX |-> foldMaxX(direction, poss, maxLayerSize, acc.maxX),
      maxY |-> foldMaxY(poss, acc.maxY),
      layerOffset |-> IF isLast THEN acc.layerOffset ELSE layerCoord + advance]

\* The iteration for layer li, its maxLayerSize known.
placeLayer(ast, config, layers, li, acc, maxLayerSize) ==
  layerStep(ast.direction, config, acc, layers[li],
            layerPositions(ast, config, layers[li],
                           acc.layerOffset + maxLayerSize \div 2),
            maxLayerSize,
            IF li < Len(layers) THEN maxLayerSizeOf(ast, layers[li + 1]) ELSE 0,
            li = Len(layers))

\* The for loop over the layers; acc carries layout, maxX, maxY, layerOffset.
RECURSIVE placeLayers(_, _, _, _, _)
placeLayers(ast, config, layers, li, acc) ==
  IF li > Len(layers) THEN acc
  ELSE placeLayers(ast, config, layers, li + 1,
                   placeLayer(ast, config, layers, li, acc,
                              maxLayerSizeOf(ast, layers[li])))

EmptyLayout == [id \in {} |-> [x |-> 0, y |-> 0]]

\* The LayoutResult.  order is the insertion order of the layout Map (the
\* layers, flattened).
layoutResult(config, layers, placed) ==
  [layout |-> placed.layout, order |-> Flatten(layers),
   canvasWidth |-> Max(Px(config.width), placed.maxX),
   canvasHeight |-> Max(Px(config.height), placed.maxY)]

placeAll(ast, config, layers) ==
  layoutResult(config, layers,
               placeLayers(ast, config, layers, 1,
                           [layout |-> EmptyLayout, maxX |-> Px(config.width),
                            maxY |-> Px(config.height),
                            layerOffset |-> Px(INITIAL_LAYER_OFFSET)]))

\* optimizedCalculateLayout without its cache.
computeLayout(ast, config) ==
  IF Len(ast.nodes) = 0
  THEN [layout |-> EmptyLayout, order |-> <<>>,
        canvasWidth |-> Px(config.width), canvasHeight |-> Px(config.height)]
  ELSE placeAll(ast, config, assignLayers(ast))


\* ---- collision geometry ----
\* a/b < c/d for positive a, b, c, d, without forming the products.
RECURSIVE FracLess(_, _, _, _)
FracLess(a, b, c, d) ==
  LET qa == a \div b
      qc == c \div d
      ra == a % b
      rc == c % d
  IN IF qa # qc THEN qa < qc
     ELSE IF rc = 0 THEN FALSE
     ELSE IF ra = 0 THEN TRUE
     ELSE FracLess(d, rc, b, ra)

\* distanceFromPointToLine(point, lineStart, lineEnd) < radius, decided on
\* the squares: the distance itself is a square root.
distanceFromPointToLineLess(point, lineStart, lineEnd, radius) ==
  LET dx == lineEnd.x - lineStart.x
      dy == lineEnd.y - lineStart.y
      wx == point.x - lineStart.x
      wy == point.y - lineStart.y
      len2 == dx * dx + dy * dy
      dot == wx * dx + wy * dy
      cross == Abs(wx * dy - wy * dx)
      r2 == radius * radius
  IN IF len2 = 0 THEN wx * wx + wy * wy < r2
     ELSE IF dot <= 0 THEN wx * wx + wy * wy < r2
     ELSE IF dot >= len2
       THEN (point.x - lineEnd.x) * (point.x - lineEnd.x)
              + (point.y - lineEnd.y) * (point.y - lineEnd.y) < r2
     ELSE IF dx = 0 THEN wx * wx < r2
     ELSE IF dy = 0 THEN wy * wy < r2
     ELSE IF cross = 0 THEN r2 > 0
     ELSE FracLess(cross, len2, r2, cross)

lineIntersectsLine(p1, p2, p3, p4) ==
  LET denom == (p1.x - p2.x) * (p3.y - p4.y) - (p1.y - p2.y) * (p3.x - p4.x)
      tNum == (p1.x - p3.x) * (p3.y - p4.y) - (p1.y - p3.y) * (p3.x - p4.x)
      uNum == -((p1.x - p2.x) * (p1.y - p3.y) - (p1.y - p2.y) * (p1.x - p3.x))
      unit(num) == IF denom > 0 THEN num >= 0 /\ num <= denom
                   ELSE num <= 0 /\ num >= denom
  IN IF denom = 0 THEN FALSE ELSE unit(tNum) /\ unit(uNum)

insideRect(p, rect) ==
  p.x >= rect.left /\ p.x <= rect.right /\ p.y >= rect.top /\ p.y <= rect.bottom

lineSegmentIntersectsRect(lineStart, lineEnd, rect) ==
  IF insideRect(lineStart, rect) \/ insideRect(lineEnd, rect) THEN TRUE
  ELSE LET tl == [x |-> rect.left, y |-> rect.top]
           tr == [x |-> rect.right, y |-> rect.top]
           br == [x |-> rect.right, y |-> rect.bottom]
           bl == [x |-> rect.left, y |-> rect.bottom]
       IN \/ lineIntersectsLine(lineStart, lineEnd, tl, tr)
          \/ lineIntersectsLine(lineStart, lineEnd, tr, br)
          \/ lineIntersectsLine(lineStart, lineEnd, br, bl)
          \/ lineIntersectsLine(lineStart, lineEnd, bl, tl)

\* dimensions is calculateNodeDimensions(nodeLabel, nodeShape).
lineIntersectsNode(lineStart, lineEnd, nodePos, nodeShape, dimensions) ==
  LET padding == Px(COLLISION_PADDING)
  IN IF nodeShape = "circle"
     THEN distanceFromPointToLineLess(nodePos, lineStart, lineEnd, dimensions.radius + padding)
     ELSE LET halfWidth == dimensions.width \div 2 + padding
              halfHeight == dimensions.height \div 2 + padding
          IN lineSegmentIntersectsRect(lineStart, lineEnd,
               [left |-> nodePos.x - halfWidth, right |-> nodePos.x + halfWidth,
                top |-> nodePos.y - halfHeight, bottom |-> nodePos.y + halfHeight])

\* nodeShapes.get(id) || "rectangle"
shapeOf(ast, id) == IF HasNode(ast, id) THEN GetNode(ast, id).shape ELSE "rectangle"

\* Some segment of the path intersects the padded geometry of the node.
pathHitsNode(ast, points, nodeId, nodePos) ==
  \E i \in 1..(Len(points) - 1) :
     lineIntersectsNode(points[i], points[i + 1], nodePos, shapeOf(ast, nodeId),
                        nodeDims(ast, nodeId))

\* findCollidingNodes: the colliding ids in the order of the layout Map.
RECURSIVE findCollidingIn(_, _, _, _, _)
findCollidingIn(ast, points, excludeIds, lr, order) ==
  IF order = <<>> THEN <<>>
  ELSE LET nodeId == Head(order)
       IN (IF nodeId \notin excludeIds /\ pathHitsNode(ast, points, nodeId, lr.layout[nodeId])
           THEN <<nodeId>> ELSE <<>>)
            \o findCollidingIn(ast, points, excludeIds, lr, Tail(order))

findCollidingNodes(ast, points, excludeIds, lr) ==
  findCollidingIn(ast, points, excludeIds, lr, lr.order)

\* ---- ports and paths ----
\* Ports on the centre lines at the same faces, but on the boundary itself.
calculatePorts_onBoundary(fromPos, toPos, fromDim, toDim, isVertical, isReversed, sameLayer) ==
  IF sameLayer THEN
    IF isVertical THEN
      LET goRight == toPos.x > fromPos.x
      IN [exitPort |-> [x |-> fromPos.x + (IF goRight THEN fromDim.width \div 2
                                             ELSE -(fromDim.width \div 2)),
                        y |-> fromPos.y],
          entryPort |-> [x |-> toPos.x + (IF goRight THEN -(toDim.width \div 2)
                                           ELSE toDim.width \div 2),
                         y |-> toPos.y]]
    ELSE
      LET goDown == toPos.y > fromPos.y
      IN [exitPort |-> [x |-> fromPos.x,
                        y |-> fromPos.y + (IF goDown THEN fromDim.height \div 2
                                             ELSE -(fromDim.height \div 2))],
          entryPort |-> [x |-> toPos.x,
                         y |-> toPos.y + (IF goDown THEN -(toDim.height \div 2)
                                           ELSE toDim.height \div 2)]]
  ELSE IF isVertical THEN
    IF isReversed
    THEN [exitPort |-> [x |-> fromPos.x, y |-> fromPos.y - fromDim.height \div 2],
          entryPort |-> [x |-> toPos.x, y |-> toPos.y + toDim.height \div 2]]
    ELSE [exitPort |-> [x |-> fromPos.x, y |-> fromPos.y + fromDim.height \div 2],
          entryPort |-> [x |-> toPos.x, y |-> toPos.y - toDim.height \div 2]]
  ELSE
    IF isReversed
    THEN [exitPort |-> [x |-> fromPos.x - fromDim.width \div 2, y |-> fromPos.y],
          entryPort |-> [x |-> toPos.x + toDim.width \div 2, y |-> toPos.y]]
    ELSE [exitPort |-> [x |-> fromPos.x + fromDim.width \div 2, y |-> fromPos.y],
          entryPort |-> [x |-> toPos.x - toDim.width \div 2, y |-> toPos.y]]

calculatePorts(fromPos, toPos, fromDim, toDim, isVertical, isReversed, sameLayer) ==
  LET off == Px(PORT_OFFSET)
  IN IF sameLayer THEN
       IF isVertical THEN
         LET goRight == toPos.x > fromPos.x
         IN [exitPort |-> [x |-> fromPos.x + (IF goRight THEN fromDim.width \div 2 + off
                                                ELSE -(fromDim.width \div 2) - off),
                           y |-> fromPos.y],
             entryPort |-> [x |-> toPos.x + (IF goRight THEN -(toDim.width \div 2) - off
                                              ELSE toDim.width \div 2 + off),
                            y |-> toPos.y]]
       ELSE
         LET goDown == toPos.y > fromPos.y
         IN [exitPort |-> [x |-> fromPos.x,
                           y |-> fromPos.y + (IF goDown THEN fromDim.height \div 2 + off
                                                ELSE -(fromDim.height \div 2) - off)],
             entryPort |-> [x |-> toPos.x,
                            y |-> toPos.y + (IF goDown THEN -(toDim.height \div 2) - off
                                              ELSE toDim.height \div 2 + off)]]
     ELSE IF isVertical THEN
       IF isReversed
       THEN [exitPort |-> [x |-> fromPos.x, y |-> fromPos.y - fromDim.height \div 2 - off],
             entryPort |-> [x |-> toPos.x, y |-> toPos.y + toDim.height \div 2 + off]]
       ELSE [exitPort |-> [x |-> fromPos.x, y |-> fromPos.y + fromDim.height \div 2 + off],
             entryPort |-> [x |-> toPos.x, y |-> toPos.y - toDim.height \div 2 - off]]
     ELSE
       IF isReversed
       THEN [exitPort |-> [x |-> fromPos.x - fromDim.width \div 2 - off, y |-> fromPos.y],
             entryPort |-> [x |-> toPos.x + toDim.width \div 2 + off, y |-> toPos.y]]
       ELSE [exitPort |-> [x |-> fromPos.x + fromDim.width \div 2 + off, y |-> fromPos.y],
             entryPort |-> [x |-> toPos.x - toDim.width \div 2 - off, y |-> toPos.y]]

\* A path generator that always joins the ports directly.
generateOrthogonalPath_direct(exitPort, entryPort, isVertical) == <<exitPort, entryPort>>

generateOrthogonalPath(exitPort, entryPort, isVertical) ==
  IF isVertical THEN
    IF Abs(exitPort.x - entryPort.x) < Px(ALIGNED_TOLERANCE) THEN <<exitPort, entryPort>>
    ELSE LET midY == (exitPort.y + entryPort.y) \div 2
         IN <<exitPort, [x |-> exitPort.x, y |-> midY],
              [x |-> entryPort.x, y |-> midY], entryPort>>
  ELSE
    IF Abs(exitPort.y - entryPort.y) < Px(ALIGNED_TOLERANCE) THEN <<exitPort, entryPort>>
    ELSE LET midX == (exitPort.x + entryPort.x) \div 2
         IN <<exitPort, [x |-> midX, y |-> exitPort.y],
              [x |-> midX, y |-> entryPort.y], entryPort>>

\* The Z-shape through a detour coordinate on the spread axis.
detourPath(first, last, detour, isVertical) ==
  IF isVertical
  THEN <<first, [x |-> detour, y |-> first.y], [x |-> detour, y |-> last.y], last>>
  ELSE <<first, [x |-> first.x, y |-> detour], [x |-> last.x, y |-> detour], last>>

spreadOf(pos, isVertical) == IF isVertical THEN pos.x ELSE pos.y

\* The promotion of a colliding straight line to a Z-shape (first if).
promoteStraight(av, ast, excludeIds, lr, isVertical) ==
  IF av.collisions # <<>> /\ Len(av.current) = 2
  THEN LET collidingPos == lr.layout[av.collisions[1]]
           first == av.current[1]
           shiftDir == IF spreadOf(collidingPos, isVertical) > spreadOf(first, isVertical)
                       THEN -1 ELSE 1
           detour == spreadOf(first, isVertical) + shiftDir * Px(COLLISION_AVOIDANCE_OFFSET)
           next == detourPath(first, av.current[2], detour, isVertical)
       IN [av EXCEPT !.current = next,
                     !.collisions = findCollidingNodes(ast, next, excludeIds, lr),
                     !.scans = @ + 1, !.promoted = TRUE]
  ELSE av

\* A retry loop whose bound is off by one (<= instead of <).
RECURSIVE retryLoop_offByOne(_, _, _, _, _)
retryLoop_offByOne(av, ast, excludeIds, lr, isVertical) ==
  IF ~(av.collisions # <<>> /\ av.retries <= MAX_COLLISION_RETRIES) THEN av
  ELSE IF Len(av.current) # 4 THEN av
  ELSE LET shiftAmount == Px(COLLISION_AVOIDANCE_OFFSET) * (av.retries + 1)
           collidingPos == lr.layout[av.collisions[1]]
           currentDetour == spreadOf(av.current[2], isVertical)
           shiftDir == IF spreadOf(collidingPos, isVertical) > currentDetour THEN -1 ELSE 1
           newDetour == currentDetour + shiftDir * shiftAmount
           next == detourPath(av.current[1], av.current[4], newDetour, isVertical)
       IN retryLoop_offByOne([av EXCEPT !.current = next,
                               !.collisions = findCollidingNodes(ast, next, excludeIds, lr),
                               !.scans = @ + 1, !.retries = @ + 1],
                    ast, excludeIds, lr, isVertical)

\* One pass of the retry loop's body on a four-point path.
retryStep(av, ast, excludeIds, lr, isVertical) ==
  LET shiftAmount == Px(COLLISION_AVOIDANCE_OFFSET) * (av.retries + 1)
      collidingPos == lr.layout[av.collisions[1]]
      currentDetour == spreadOf(av.current[2], isVertical)
      shiftDir == IF spreadOf(collidingPos, isVertical) > currentDetour THEN -1 ELSE 1
      newDetour == currentDetour + shiftDir * shiftAmount
      next == detourPath(av.current[1], av.current[4], newDetour, isVertical)
  IN [av EXCEPT !.current = next,
                !.collisions = findCollidingNodes(ast, next, excludeIds, lr),
                !.scans = @ + 1, !.retries = @ + 1]

\* The retry loop.
RECURSIVE retryLoop(_, _, _, _, _)
retryLoop(av, ast, excludeIds, lr, isVertical) ==
  IF ~(av.collisions # <<>> /\ av.retries < MAX_COLLISION_RETRIES) THEN av
  ELSE IF Len(av.current) # 4 THEN av
  ELSE retryLoop(retryStep(av, ast, excludeIds, lr, isVertical),
                 ast, excludeIds, lr, isVertical)

\* avoidCollisions.  The result carries, next to the path (current), the
\* collisions of the last scan, the retries used and the number of scans.
avoidCollisions(path, ast, excludeIds, lr, isVertical) ==
  retryLoop(
    promoteStraight(
      [current |-> path, collisions |-> findCollidingNodes(ast, path, excludeIds, lr),
       retries |-> 0, scans |-> 1, promoted |-> FALSE],
      ast, excludeIds, lr, isVertical),
    ast, excludeIds, lr, isVertical)

isVerticalDir(direction) == direction = "TD" \/ direction = "TB" \/ direction = "BT"
isReversedDir(direction) == direction = "BT" \/ direction = "RL"

sameLayerOf(fromPos, toPos, isVertical) ==
  IF isVertical THEN Abs(fromPos.y - toPos.y) < Px(SAME_LAYER_TOLERANCE)
  ELSE Abs(fromPos.x - toPos.x) < Px(SAME_LAYER_TOLERANCE)

portsOf(ast, lr, edge) ==
  LET fromPos == lr.layout[edge.from]
      toPos == lr.layout[edge.to]
      isVertical == isVerticalDir(ast.direction)
  IN calculatePorts(fromPos, toPos, nodeDims(ast, edge.from), nodeDims(ast, edge.to),
                    isVertical, isReversedDir(ast.direction),
                    sameLayerOf(fromPos, toPos, isVertical))

routeFromPorts(ast, lr, edge, isVertical, sameLayer, ports) ==
  IF sameLayer
  THEN [current |-> <<ports.exitPort, ports.entryPort>>, collisions |-> <<>>,
        retries |-> 0, scans |-> 0, promoted |-> FALSE]
  ELSE avoidCollisions(generateOrthogonalPath(ports.exitPort, ports.entryPort, isVertical),
                       ast, {edge.from, edge.to}, lr, isVertical)

improvedRouteEdgePath(ast, lr, edge) ==
  routeFromPorts(ast, lr, edge, isVerticalDir(ast.direction),
                 sameLayerOf(lr.layout[edge.from], lr.layout[edge.to],
                             isVerticalDir(ast.direction)),
                 portsOf(ast, lr, edge))

\* The edge loop of svgRenderer: an edge is routed when layout.get finds a
\* position for both of its ends; otherwise nothing is emitted for it.
NoPath == [current |-> <<>>, collisions |-> <<>>, retries |-> 0, scans |-> 0,
           promoted |-> FALSE]

routeEdges(ast, lr) ==
  [i \in 1..Len(ast.edges) |->
     LET edge == ast.edges[i]
     IN IF edge.from \in DOMAIN lr.layout /\ edge.to \in DOMAIN lr.layout
        THEN improvedRouteEdgePath(ast, lr, edge)
        ELSE NoPath]


\* ---- the layout cache ----
\* Array.prototype.sort on the ids: ids are ordered as their strings are.
IdOrder == <<"A", "B", "C", "D", "E", "X">>
IdRank(id) == CHOOSE i \in 1..Len(IdOrder) : IdOrder[i] = id

RECURSIVE SortedIds(_)
SortedIds(ids) ==
  IF ids = {} THEN <<>>
  ELSE LET least == CHOOSE a \in ids : \A b \in ids : IdRank(a) <= IdRank(b)
       IN <<least>> \o SortedIds(ids \ {least})

RECURSIVE JoinComma(_)
JoinComma(strs) ==
  IF strs = <<>> THEN ""
  ELSE IF Len(strs) = 1 THEN strs[1]
  ELSE strs[1] \o "," \o JoinComma(Tail(strs))

edgeKeyOf(edges) ==
  JoinComma([i \in 1..Len(edges) |-> edges[i].from \o "->" \o edges[i].to])

\* `${direction}-${nodeKey}-${edgeKey}-${config.nodeSpacing}`
cacheKeyOf(ast, config) ==
  ast.direction \o "-" \o JoinComma(SortedIds(NodeIds(ast))) \o "-"
    \o edgeKeyOf(ast.edges) \o "-" \o ToString(config.nodeSpacing)

\* A store that keeps the latest result only.
storeResult_latestOnly(cache, cacheKey, ast, result) ==
  IF Len(ast.nodes) = 0
  THEN [result |-> result, cache |-> cache]
  ELSE [result |-> result, cache |-> [k \in {cacheKey} |-> result]]

\* layoutCache.set(cacheKey, result), which the early return for an empty
\* node map never reaches.
storeResult(cache, cacheKey, ast, result) ==
  IF Len(ast.nodes) = 0
  THEN [result |-> result, cache |-> cache]
  ELSE [result |-> result,
        cache |-> [k \in DOMAIN cache \cup {cacheKey} |->
                     IF k = cacheKey THEN result ELSE cache[k]]]

lookupOrCompute(cache, cacheKey, ast, config) ==
  IF cacheKey \in DOMAIN cache
  THEN [result |-> cache[cacheKey], cache |-> cache]
  ELSE storeResult(cache, cacheKey, ast, computeLayout(ast, config))

\* A layout function that looks its key up but never stores a result.
optimizedCalculateLayout_noStore(cache, ast, config) ==
  [result |-> IF cacheKeyOf(ast, config) \in DOMAIN cache
              THEN cache[cacheKeyOf(ast, config)]
              ELSE computeLayout(ast, config),
   cache |-> cache]

\* optimizedCalculateLayout: the result it returns and the cache it leaves.
optimizedCalculateLayout(cache, ast, config) ==
  lookupOrCompute(cache, cacheKeyOf(ast, config), ast, config)

\* svgRenderer: the layout it used, the path of every edge and its Result.
rendered(ast, config, r) ==
  [ast |-> ast, config |-> config, layout |-> r.result,
   paths |-> routeEdges(ast, r.result), success |-> TRUE, cache |-> r.cache]

svgRenderer(cache, ast, config) ==
  rendered(ast, config, optimizedCalculateLayout(cache, ast, config))

\* ---- state ----
\* layoutCache: the module-level Map.  history: the render calls made so
\* far, each with its inputs and what it produced.  pending: the arguments
\* of the render call about to be made, <<>> when there is none.
VARIABLES layoutCache, history, pending

vars == <<layoutCache, history, pending>>

EmptyCache == [k \in {} |-> 0]

\* renderSvg(ast, config) with the pending arguments; next is what the
\* caller asks for afterwards.
Call(next) ==
  /\ pending # <<>>
  /\ \E call \in { pending[1] }, cache \in { layoutCache } :
     \E r \in { svgRenderer(cache, call.ast, call.config) } :
        /\ layoutCache' = r.cache
        /\ history' = Append(history, [ast |-> r.ast, config |-> r.config,
                                       layout |-> r.layout, paths |-> r.paths,
                                       success |-> r.success])
  /\ pending' \in next

\* ---- inputs ----
\* The longest edge sequence of a diagram.
MaxEdges == 3
\* The most render calls in one run of SpecSeq.
MaxCalls == 3

Directions == {"TD", "TB", "BT", "LR", "RL"}

Node(id, len, shape) == [id |-> id, len |-> len, shape |-> shape]
Edge(from, to) == [from |-> from, to |-> to]
Config(width, height, nodeSpacing) ==
  [width |-> width, height |-> height, nodeSpacing |-> nodeSpacing]

\* Node maps: empty labels, labels that make two widths 0.8 px apart, a long
\* label next to a short one and a circle, very large nodes, and four nodes.
NodeLists ==
  { <<>>,
    <<Node("A", 0, "rectangle")>>,
    <<Node("A", 0, "rectangle"), Node("B", 0, "rectangle")>>,
    <<Node("A", 9, "rectangle"), Node("B", 9, "rectangle"), Node("C", 0, "rectangle")>>,
    <<Node("A", 30, "rectangle"), Node("B", 5, "rectangle"), Node("C", 0, "circle")>>,
    <<Node("A", 30, "circle"), Node("B", 0, "hexagon"), Node("C", 75, "rectangle")>>,
    <<Node("A", 0, "rectangle"), Node("B", 0, "rectangle"), Node("C", 0, "rectangle"),
      Node("D", 0, "rectangle")>> }

\* An id that no node map holds.
GhostId == "X"

\* The ids an edge may name besides the nodes' own: the ghost id, for the
\* node maps of at most three nodes.
DanglingIds(nodes) == IF Len(nodes) <= 3 THEN <<GhostId>> ELSE <<>>

Configs == { Config(800, 600, 120), Config(200, 150, 50) }

\* The edges a diagram over these nodes can hold, in a fixed order.
EdgePairs(nodes) ==
  LET ids == [i \in 1..Len(nodes) |-> nodes[i].id] \o DanglingIds(nodes)
      n == Len(ids)
  IN [k \in 1..(n * n) |-> Edge(ids[((k - 1) \div n) + 1], ids[((k - 1) % n) + 1])]

\* The strictly increasing index sequences of length at most len over 1..n.
RECURSIVE IncreasingSeqs(_, _)
IncreasingSeqs(len, n) ==
  IF len = 0 THEN { <<>> }
  ELSE LET shorter == IncreasingSeqs(len - 1, n)
           longest == { t \in shorter : Len(t) = len - 1 }
           fits(t, j) == len = 1 \/ t[len - 1] < j
       IN shorter \cup
          { Append(q[1], q[2]) : q \in { r \in longest \X (1..n) : fits(r[1], r[2]) } }

EdgeLists(nodes) ==
  LET pairs == EdgePairs(nodes)
  IN { [i \in 1..Len(s) |-> pairs[s[i]]] : s \in IncreasingSeqs(MaxEdges, Len(pairs)) }

Diagram(direction, nodes, edges) == [direction |-> direction, nodes |-> nodes, edges |-> edges]

\* ---- one render call from an empty cache, over all the inputs ----
Init ==
  /\ layoutCache = EmptyCache
  /\ history = <<>>
  /\ \E nodes \in NodeLists, direction \in Directions, config \in Configs :
       \E edges \in EdgeLists(nodes) :
          pending = << [ast |-> Diagram(direction, nodes, edges), config |-> config] >>

RenderSvg == Call({ <<>> })

Next == RenderSvg

Spec == Init /\ [][Next]_vars

\* ---- sequences of render calls on one cache ----
\* Diagrams that share a cache key pairwise or not: the empty diagram with
\* an edge between absent nodes, two diagrams that differ in a label only,
\* and the second of them laid out left to right.
SeqDiagrams ==
  { Diagram("TD", <<>>, <<Edge("A", "B")>>),
    Diagram("TD", <<Node("A", 0, "rectangle"), Node("B", 0, "rectangle")>>, <<>>),
    Diagram("TD", <<Node("A", 30, "rectangle"), Node("B", 0, "rectangle")>>, <<>>),
    Diagram("LR", <<Node("A", 30, "rectangle"), Node("B", 0, "rectangle")>>, <<>>) }

SeqConfigs == { Config(800, 600, 120), Config(1000, 800, 120), Config(800, 600, 200) }

SeqCalls == { << [ast |-> d, config |-> c] >> : d \in SeqDiagrams, c \in SeqConfigs }

InitSeq ==
  /\ layoutCache = EmptyCache
  /\ history = <<>>
  /\ pending \in SeqCalls

\* One render call, then the arguments of the next one unless this was the
\* last call of the run.
RenderSvgAgain == Call(IF Len(history) + 1 < MaxCalls THEN SeqCalls ELSE { <<>> })

NextSeq == RenderSvgAgain

SpecSeq == InitSeq /\ [][NextSeq]_vars

\* ---- what the claims speak about ----
Calls == 1..Len(history)

\* The layers the call's diagram is given.
LayersOf(h) == assignLayers(h.ast)

Occurrences(s, x) == Cardinality({ i \in 1..Len(s) : s[i] = x })

\* The nodes other than the edge's two ends whose padded geometry a
\* polyline crosses.
NodesCrossed(h, points, edge) ==
  { id \in NodeIds(h.ast) \ {edge.from, edge.to} :
      pathHitsNode(h.ast, points, id, h.layout.layout[id]) }

Routed(h, i) == h.paths[i].current # <<>>

StraightLine(h, edge) ==
  LET ports == portsOf(h.ast, h.layout, edge) IN <<ports.exitPort, ports.entryPort>>

SameLayerEdge(h, edge) ==
  sameLayerOf(h.layout.layout[edge.from], h.layout.layout[edge.to],
              isVerticalDir(h.ast.direction))

Dangling(h, edge) == ~HasNode(h.ast, edge.from) \/ ~HasNode(h.ast, edge.to)

\* ---- claims about one render call (Spec) ----

\* C1: every node id of the diagram is assigned to exactly one layer and
\* receives one position: it occurs once in the layers, once in the layout's
\* insertion order, and the layout has an entry for it.
C1_EveryNodeInOneLayerWithPosition ==
  \A c \in Calls :
    LET h == history[c]
        layers == LayersOf(h)
    IN \A id \in NodeIds(h.ast) :
         /\ Cardinality({ li \in 1..Len(layers) : id \in Range(layers[li]) }) = 1
         /\ Occurrences(Flatten(layers), id) = 1
         /\ Occurrences(h.layout.order, id) = 1
         /\ id \in DOMAIN h.layout.layout

\* A rendered three-node diagram with a cycle that no entry point reaches,
\* so that the layer of the remaining nodes is what places two of them.
C1_Witness ==
  \E c \in Calls :
    LET h == history[c]
        layers == LayersOf(h)
    IN /\ Len(h.ast.nodes) = 3
       /\ initialQueue(h.ast) = <<"A">>
       /\ Len(layers) = 2
       /\ layers[2] = <<"B", "C">>
       /\ \E i \in 1..Len(h.ast.edges) : h.ast.edges[i] = Edge("B", "C")
       /\ \E i \in 1..Len(h.ast.edges) : h.ast.edges[i] = Edge("C", "B")
       /\ {"A", "B", "C"} \subseteq DOMAIN h.layout.layout

\* C2: two nodes placed in one layer are at least half the first's dimension
\* plus 40 px plus half the second's dimension apart on the spread axis
\* (x for the vertical directions, y for LR and RL), whatever nodeSpacing is.
C2_SameLayerGap ==
  \A c \in Calls :
    LET h == history[c]
        layers == LayersOf(h)
        isVertical == isVerticalDir(h.ast.direction)
    IN \A li \in 1..Len(layers) :
         \A i, j \in 1..Len(layers[li]) :
           i # j =>
             Abs(spreadOf(h.layout.layout[layers[li][i]], isVertical)
                   - spreadOf(h.layout.layout[layers[li][j]], isVertical))
               >= nodeDimOf(h.ast.direction, nodeDims(h.ast, layers[li][i])) \div 2
                    + Px(MIN_NODE_GAP)
                    + nodeDimOf(h.ast.direction, nodeDims(h.ast, layers[li][j])) \div 2

\* A rendered layer of three nodes in which nodeSpacing (50 px) is less than
\* what two neighbours need, so that the gap is what separates them.
C2_Witness ==
  \E c \in Calls :
    LET h == history[c]
        layers == LayersOf(h)
        isVertical == isVerticalDir(h.ast.direction)
    IN /\ h.config.nodeSpacing = 50
       /\ \E li \in 1..Len(layers) :
            /\ Len(layers[li]) = 3
            /\ \E i \in 1..2 :
                 Abs(spreadOf(h.layout.layout[layers[li][i]], isVertical)
                       - spreadOf(h.layout.layout[layers[li][i + 1]], isVertical))
                   > Px(h.config.nodeSpacing)

\* C5: the bounding box of every node lies inside the rectangle from (0, 0)
\* to (canvasWidth, canvasHeight).
C5_CanvasContainsEveryNode ==
  \A c \in Calls :
    LET h == history[c]
    IN \A id \in NodeIds(h.ast) :
         LET pos == h.layout.layout[id]
             dims == nodeDims(h.ast, id)
         IN /\ pos.x - dims.width \div 2 >= 0
            /\ pos.y - dims.height \div 2 >= 0
            /\ pos.x + dims.width \div 2 <= h.layout.canvasWidth
            /\ pos.y + dims.height \div 2 <= h.layout.canvasHeight

\* C6: an edge whose from or to id is not in the node map gets no waypoints,
\* and the render call succeeds.
C6_DanglingEdgeSkipped ==
  \A c \in Calls :
    LET h == history[c]
    IN \A i \in 1..Len(h.ast.edges) :
         Dangling(h, h.ast.edges[i]) => (~Routed(h, i) /\ h.success)

\* C8: every path has at least two waypoints, and two consecutive waypoints
\* differ by less than 2 px in x or by less than 2 px in y.
C8_PathsAxisAligned ==
  \A c \in Calls :
    LET h == history[c]
    IN \A i \in 1..Len(h.ast.edges) :
         Routed(h, i) =>
           LET path == h.paths[i].current
           IN /\ Len(path) >= 2
              /\ \A k \in 1..(Len(path) - 1) :
                   \/ Abs(path[k].x - path[k + 1].x) < Px(ALIGNED_TOLERANCE)
                   \/ Abs(path[k].y - path[k + 1].y) < Px(ALIGNED_TOLERANCE)

\* A rendered cross-layer edge whose ports are less than 2 px but not 0 px
\* apart on the spread axis (a slanted two-point path), next to a rendered
\* four-point path.
C8_Witness ==
  \E c \in Calls :
    LET h == history[c]
    IN /\ \E i \in 1..Len(h.ast.edges) :
            /\ Routed(h, i)
            /\ ~SameLayerEdge(h, h.ast.edges[i])
            /\ Len(h.paths[i].current) = 2
            /\ h.paths[i].current[1].x # h.paths[i].current[2].x
            /\ h.paths[i].current[1].y # h.paths[i].current[2].y
       /\ \E i \in 1..Len(h.ast.edges) : Routed(h, i) /\ Len(h.paths[i].current) = 4

\* C9 as stated: when the straight line between an edge's ports crosses the
\* padded geometry of a node that is neither end of the edge, the path has at
\* least four waypoints and either crosses no such node or used 3 retries.
C9_CollidingLineIsRerouted ==
  \A c \in Calls :
    LET h == history[c]
    IN \A i \in 1..Len(h.ast.edges) :
         LET edge == h.ast.edges[i]
         IN (Routed(h, i) /\ NodesCrossed(h, StraightLine(h, edge), edge) # {}) =>
              /\ Len(h.paths[i].current) >= 4
              /\ \/ NodesCrossed(h, h.paths[i].current, edge) = {}
                 \/ h.paths[i].retries = MAX_COLLISION_RETRIES

\* C10: the avoidance of one edge makes at most 3 retries and at most 5
\* collision scans, and every routed edge has a path; the call succeeds.
C10_AvoidanceBounded ==
  \A c \in Calls :
    LET h == history[c]
    IN /\ h.success
       /\ \A i \in 1..Len(h.ast.edges) :
            Routed(h, i) =>
              /\ h.paths[i].retries <= MAX_COLLISION_RETRIES
              /\ h.paths[i].scans <= MAX_COLLISION_RETRIES + 2
              /\ Len(h.paths[i].current) >= 2

\* A rendered edge that used all 3 retries and 5 scans and still collides.
C10_Witness ==
  \E c \in Calls :
    LET h == history[c]
    IN \E i \in 1..Len(h.ast.edges) :
         /\ Routed(h, i)
         /\ h.paths[i].retries = MAX_COLLISION_RETRIES
         /\ h.paths[i].scans = MAX_COLLISION_RETRIES + 2
         /\ h.paths[i].collisions # <<>>

\* ---- claims about sequences of render calls (SpecSeq) ----

\* C3: after any sequence of render calls, the canvas used for a call is at
\* least as wide and as high as that call's config requests.
C3_CanvasAtLeastRequested ==
  \A c \in Calls :
    LET h == history[c]
    IN /\ h.layout.canvasWidth >= Px(h.config.width)
       /\ h.layout.canvasHeight >= Px(h.config.height)

\* C4: the layout result used for a call equals the one the algorithm
\* computes for the call's diagram and config from an empty cache, whatever
\* was rendered before.
C4_LayoutAsFromEmptyCache ==
  \A c \in Calls :
    LET h == history[c]
    IN h.layout = optimizedCalculateLayout(EmptyCache, h.ast, h.config).result

\* The four inputs C7 names: node id set, edge list, nodeSpacing, direction.
SameKeyInputs(h1, h2) ==
  /\ NodeIds(h1.ast) = NodeIds(h2.ast)
  /\ h1.ast.edges = h2.ast.edges
  /\ h1.config.nodeSpacing = h2.config.nodeSpacing
  /\ h1.ast.direction = h2.ast.direction

SameResult(h1, h2) ==
  /\ h1.layout.layout = h2.layout.layout
  /\ h1.layout.canvasWidth = h2.layout.canvasWidth
  /\ h1.layout.canvasHeight = h2.layout.canvasHeight

MaxChain == 4

\* Label lengths: none, short, long, and wider than any detour reaches.
ScenarioLabels == {0, 9, 30, 75}

Reverse(s) == [i \in 1..Len(s) |-> s[Len(s) + 1 - i]]

\* The first n ids as nodes of the given shapes, under every labelling.
LabelledNodes(n, shapes) ==
  { [i \in 1..n |-> Node(IdOrder[i], lens[i], shapes[i])] : lens \in [1..n -> ScenarioLabels] }

Rectangles(n) == [i \in 1..n |-> "rectangle"]

ChainEdges(n) == [i \in 1..(n - 1) |-> Edge(IdOrder[i], IdOrder[i + 1])]

\* N1 -> N2 -> ... -> Nn, the node map in chain order or in the reverse.
ChainDiagrams ==
  UNION { { Diagram(d, nodes, ChainEdges(n)), Diagram(d, Reverse(nodes), ChainEdges(n)) } :
            <<d, nodes, n>> \in { <<d, nodes, n>> \in
               {"TD", "TB"} \X (UNION { LabelledNodes(k, Rectangles(k)) : k \in 1..MaxChain })
                 \X (1..MaxChain) : Len(nodes) = n } }

SkipEdge == Edge("A", "D")

\* A -> B -> C -> D with the additional edge A -> D.
SkipChainDiagrams ==
  { Diagram(d, nodes, Append(ChainEdges(4), SkipEdge)) :
      d \in {"TD", "TB"}, nodes \in LabelledNodes(4, Rectangles(4)) }

FanInEdges == <<Edge("A", "C"), Edge("B", "C")>>

\* A -> C and B -> C, the two sources rectangles or circles.
FanInDiagrams ==
  { Diagram(q[1], q[2], FanInEdges) :
      q \in Directions \X
            (UNION { LabelledNodes(3, <<sa, sb, "rectangle">>) :
                       sa \in {"rectangle", "circle"}, sb \in {"rectangle", "circle"} }) }

ForkEdges == <<Edge("A", "B"), Edge("A", "C"), Edge("B", "C"), Edge("B", "D")>>

\* A -> B, B -> C and B -> D with the additional edge A -> C past B.
ForkDiagrams ==
  { Diagram(d, nodes, ForkEdges) :
      d \in Directions, nodes \in LabelledNodes(4, Rectangles(4)) }

ScenarioDiagrams ==
  ChainDiagrams \cup SkipChainDiagrams \cup FanInDiagrams \cup ForkDiagrams

InitScenario ==
  /\ layoutCache = EmptyCache
  /\ history = <<>>
  /\ \E d \in ScenarioDiagrams, config \in Configs :
       pending = << [ast |-> d, config |-> config] >>

RenderScenario == Call({ <<>> })

NextScenario == RenderScenario

SpecScenario == InitScenario /\ [][NextScenario]_vars

\* ---- claims about the scenario diagrams (SpecScenario) ----

\* The index of the layer that holds the id.
LayerIndex(layers, id) == CHOOSE li \in 1..Len(layers) : id \in Range(layers[li])

TopDown(ast) == ast.direction \in {"TD", "TB"}

IsSkipChain(ast) ==
  /\ NodeIds(ast) = {"A", "B", "C", "D"}
  /\ ast.edges = Append(ChainEdges(4), SkipEdge)
  /\ TopDown(ast)

AxisAligned(path) ==
  \A k \in 1..(Len(path) - 1) : path[k].x = path[k + 1].x \/ path[k].y = path[k + 1].y

\* C11: in a top-down chain A -> B -> C -> D with the additional edge A -> D,
\* whatever the labels and the node spacing, the path of A -> D has at least
\* four waypoints, is axis-aligned, and none of its segments crosses the
\* padded geometry of B or of C.
C11_SkipEdgeAvoidsChain ==
  \A c \in Calls :
    LET h == history[c]
    IN IsSkipChain(h.ast) =>
         LET path == h.paths[4].current
         IN /\ Len(path) >= 4
            /\ AxisAligned(path)
            /\ NodesCrossed(h, path, SkipEdge) \cap {"B", "C"} = {}

IsFanIn(ast) == NodeIds(ast) = {"A", "B", "C"} /\ ast.edges = FanInEdges

\* C12: in a diagram of A, B and C with the edges A -> C and B -> C only, A
\* and B share a layer, C is in the layer after it, the two paths differ, and
\* neither path crosses the geometry of the other source, not even grown by
\* the collision padding.
C12_FanIn ==
  \A c \in Calls :
    LET h == history[c]
        layers == LayersOf(h)
    IN IsFanIn(h.ast) =>
         /\ LayerIndex(layers, "A") = LayerIndex(layers, "B")
         /\ LayerIndex(layers, "C") = LayerIndex(layers, "A") + 1
         /\ h.paths[1].current # h.paths[2].current
         /\ ~pathHitsNode(h.ast, h.paths[1].current, "B", h.layout.layout["B"])
         /\ ~pathHitsNode(h.ast, h.paths[2].current, "A", h.layout.layout["A"])

\* A rendered fan-in whose sources are a circle with the widest label and a
\* rectangle, both edges routed around a corner.
C12_Witness ==
  \E c \in Calls :
    LET h == history[c]
    IN /\ IsFanIn(h.ast)
       /\ GetNode(h.ast, "A").shape = "circle"
       /\ GetNode(h.ast, "A").len = 75
       /\ GetNode(h.ast, "B").shape = "rectangle"
       /\ Len(h.paths[1].current) = 4
       /\ Len(h.paths[2].current) = 4

\* The ids of a chain in the order of its edges.
ChainIds(ast) ==
  IF ast.edges = <<>> THEN <<ast.nodes[1].id>>
  ELSE <<ast.edges[1].from>> \o [i \in 1..Len(ast.edges) |-> ast.edges[i].to]

IsChain(ast) ==
  /\ Len(ast.nodes) >= 1
  /\ Len(ast.edges) = Len(ast.nodes) - 1
  /\ \A i \in 1..(Len(ast.edges) - 1) : ast.edges[i].to = ast.edges[i + 1].from
  /\ Range(ChainIds(ast)) = NodeIds(ast)
  /\ Cardinality(NodeIds(ast)) = Len(ast.nodes)

\* C13: a top-down chain of n nodes is laid out in n layers of one node each,
\* in chain order, at strictly increasing y and at one and the same x.
C13_ChainOneNodePerLayer ==
  \A c \in Calls :
    LET h == history[c]
        ids == ChainIds(h.ast)
    IN (IsChain(h.ast) /\ TopDown(h.ast)) =>
         /\ LayersOf(h) = [i \in 1..Len(ids) |-> <<ids[i]>>]
         /\ \A i \in 1..(Len(ids) - 1) :
              h.layout.layout[ids[i]].y < h.layout.layout[ids[i + 1]].y
         /\ \A i \in 1..Len(ids) :
              h.layout.layout[ids[i]].x = h.layout.layout[ids[1]].x

\* A rendered chain of four nodes with different labels whose node map is
\* in the reverse of the chain order.
C13_Witness ==
  \E c \in Calls :
    LET h == history[c]
    IN /\ IsChain(h.ast)
       /\ TopDown(h.ast)
       /\ Len(h.ast.nodes) = 4
       /\ h.ast.nodes[1].id = "D"
       /\ GetNode(h.ast, "A").len = 75
       /\ GetNode(h.ast, "B").len = 0

\* ---- node dimensions by shape and label length (SpecDims) ----
\* The longest label measured.
MaxLabelLen == 12

NodeShapes == {"rectangle", "rounded", "circle", "rhombus", "hexagon", "stadium"}

\* Two labels of one shape to measure, the shorter first.
InitDims ==
  /\ layoutCache = EmptyCache
  /\ history = <<>>
  /\ \E shape \in NodeShapes, len1 \in 0..MaxLabelLen, len2 \in 0..MaxLabelLen :
       /\ len1 <= len2
       /\ pending = << [shape |-> shape, len |-> len1], [shape |-> shape, len |-> len2] >>

\* One call of calculateNodeDimensions.
MeasureNode ==
  /\ pending # <<>>
  /\ history' = Append(history,
                       [shape |-> pending[1].shape, len |-> pending[1].len,
                        dimensions |-> calculateNodeDimensions(pending[1].len,
                                                               pending[1].shape)])
  /\ pending' = Tail(pending)
  /\ UNCHANGED layoutCache

NextDims == MeasureNode

SpecDims == InitDims /\ [][NextDims]_vars

\* C14: for each shape the computed width never decreases when the label
\* gets longer, the empty label included.
C14_WidthMonotoneInLabelLength ==
  \A i \in 1..Len(history), j \in 1..Len(history) :
    (history[i].shape = history[j].shape /\ history[i].len <= history[j].len) =>
      history[i].dimensions.width <= history[j].dimensions.width

\* ---- addNode and addEdge on shared objects (SpecAst) ----
\* An AST is an object holding a reference to its node map and its edge
\* array; the heap gives every Map object its entries in insertion order.
\* The largest number of calls made one after the other.
MaxOps == 3

\* createAST with the default nodes = new Map(): object 1, map 1, no edges.
EmptyHeap == << <<>> >>
createAST == [obj |-> 1, nodes |-> 1, edges |-> <<>>]

\* Map.prototype.set: replaces the value of a key in place, appends a new key.
mapSet(entries, node) ==
  IF \E i \in 1..Len(entries) : entries[i].id = node.id
  THEN [i \in 1..Len(entries) |-> IF entries[i].id = node.id THEN node ELSE entries[i]]
  ELSE Append(entries, node)

\* part_005: newNodes = new Map(ast.nodes); newNodes.set(node.id, node).
documented_addNode(heap, ast, node) ==
  [heap |-> Append(heap, mapSet(heap[ast.nodes], node)),
   result |-> [obj |-> ast.obj + 1, nodes |-> Len(heap) + 1, edges |-> ast.edges]]

\* parser.ts: nodes: new Map(ast.nodes.set(node.id, node)); set changes the
\* map of the AST passed in and returns it, new Map copies what it returns.
combinator_addNode(heap, ast, node) ==
  [heap |-> Append([heap EXCEPT ![ast.nodes] = mapSet(@, node)],
                   mapSet(heap[ast.nodes], node)),
   result |-> [obj |-> ast.obj + 1, nodes |-> Len(heap) + 1, edges |-> ast.edges]]

\* Both modules: { ...ast, edges: [...ast.edges, edge] }.
addEdge(heap, ast, edge) ==
  [heap |-> heap,
   result |-> [obj |-> ast.obj + 1, nodes |-> ast.nodes, edges |-> Append(ast.edges, edge)]]

ParserModules == {"documented", "combinator"}

AstOps ==
  { [op |-> "addNode", node |-> Node("A", 0, "rectangle")],
    [op |-> "addNode", node |-> Node("A", 9, "rectangle")],
    [op |-> "addNode", node |-> Node("B", 0, "circle")],
    [op |-> "addEdge", edge |-> Edge("A", "B")] }

applyOp(parser, heap, ast, o) ==
  IF o.op = "addEdge" THEN addEdge(heap, ast, o.edge)
  ELSE IF parser = "documented" THEN documented_addNode(heap, ast, o.node)
  ELSE combinator_addNode(heap, ast, o.node)

\* The heap and the newest AST after the calls made so far.
heapNow == IF history = <<>> THEN EmptyHeap ELSE history[Len(history)].heapAfter
astNow == IF history = <<>> THEN createAST ELSE history[Len(history)].result

InitAst ==
  /\ layoutCache = EmptyCache
  /\ history = <<>>
  /\ \E parser \in ParserModules, n \in 1..MaxOps :
       \E ops \in [1..n -> AstOps] :
          pending = [i \in 1..n |-> [parser |-> parser, call |-> ops[i]]]

\* One call of addNode or addEdge on the AST the previous call returned.
ApplyAstOp ==
  /\ pending # <<>>
  /\ \E r \in { applyOp(pending[1].parser, heapNow, astNow, pending[1].call) } :
       history' = Append(history,
                         [parser |-> pending[1].parser, call |-> pending[1].call,
                          input |-> astNow, heapBefore |-> heapNow,
                          heapAfter |-> r.heap, result |-> r.result])
  /\ pending' = Tail(pending)
  /\ UNCHANGED layoutCache

NextAst == ApplyAstOp

SpecAst == InitAst /\ [][NextAst]_vars

\* C15: addNode and addEdge, of either parser module, return a new AST and
\* leave the AST passed in unchanged: after the call its node map and its
\* edge sequence hold exactly the entries they held before.
C15_InputAstUnchanged ==
  \A c \in 1..Len(history) :
    LET h == history[c]
    IN /\ h.result.obj # h.input.obj
       /\ h.heapAfter[h.input.nodes] = h.heapBefore[h.input.nodes]

\* ---- parseMermaid and mermaidRenderer on text (SpecRoundTrip) ----
\* A text is a sequence of lines, a line a sequence of characters.
\* The largest number of lines after the header.
MaxLines == 2

Letters ==
  {"a","b","c","d","e","f","g","h","i","j","k","l","m","n","o","p","q","r","s","t",
   "u","v","w","x","y","z","A","B","C","D","E","F","G","H","I","J","K","L","M","N",
   "O","P","Q","R","S","T","U","V","W","X","Y","Z"}
IdStartChars == Letters \cup {"_"}
IdChars == IdStartChars \cup {"0","1","2","3","4","5","6","7","8","9"}
Whitespace == {" ", "\t"}

\* The label of an edge created without one.
undefined == <<"undefined">>

\* The number of characters from position p on that are in the set.
RunIn(s, p, set) ==
  LET stops == { k \in p..Len(s) : s[k] \notin set }
  IN IF stops = {} THEN Len(s) - p + 1
     ELSE (CHOOSE k \in stops : \A j \in stops : k <= j) - p

\* The number of characters from position p on that differ from stop.
RunUntil(s, p, stop) ==
  LET stops == { k \in p..Len(s) : s[k] = stop }
  IN IF stops = {} THEN Len(s) - p + 1
     ELSE (CHOOSE k \in stops : \A j \in stops : k <= j) - p

StartsWith(s, p, pat) ==
  /\ p + Len(pat) - 1 <= Len(s)
  /\ \A i \in 1..Len(pat) : s[p + i - 1] = pat[i]

\* /^[a-zA-Z_][a-zA-Z0-9_]*/ at position p: the length matched, 0 for none.
idLen(s, p) ==
  IF p <= Len(s) /\ s[p] \in IdStartChars THEN RunIn(s, p, IdChars) ELSE 0

\* getNodeShapeSymbols, and the class the label of SHAPE_PATTERNS excludes,
\* in the order of SHAPE_PATTERNS.
SHAPE_PATTERNS ==
  << [shape |-> "stadium",   open |-> <<"(", "[">>, stop |-> "]", close |-> <<"]", ")">>],
     [shape |-> "circle",    open |-> <<"(", "(">>, stop |-> ")", close |-> <<")", ")">>],
     [shape |-> "hexagon",   open |-> <<"{", "{">>, stop |-> "}", close |-> <<"}", "}">>],
     [shape |-> "rhombus",   open |-> <<"{">>,      stop |-> "}", close |-> <<"}">>],
     [shape |-> "rounded",   open |-> <<"(">>,      stop |-> ")", close |-> <<")">>],
     [shape |-> "rectangle", open |-> <<"[">>,      stop |-> "]", close |-> <<"]">>] >>

getNodeShapeSymbols(shape) ==
  SHAPE_PATTERNS[CHOOSE i \in 1..Len(SHAPE_PATTERNS) : SHAPE_PATTERNS[i].shape = shape]

\* One anchored shape pattern at position p, the id being n long and the
\* label m long: id, opening symbol, one or more label characters, closing
\* symbol.
shapeMatches(s, p, pat, n, m) ==
  /\ n > 0
  /\ StartsWith(s, p + n, pat.open)
  /\ m > 0
  /\ StartsWith(s, p + n + Len(pat.open) + m, pat.close)

labelLen(s, p, pat) == RunUntil(s, p + idLen(s, p) + Len(pat.open), pat.stop)

matchingShapes(s, p) ==
  { i \in 1..Len(SHAPE_PATTERNS) :
      shapeMatches(s, p, SHAPE_PATTERNS[i], idLen(s, p), labelLen(s, p, SHAPE_PATTERNS[i])) }

nodeToken(s, p, pat, n, m) ==
  [tokens |-> << [type |-> "node", id |-> SubSeq(s, p, p + n - 1),
                  label |-> SubSeq(s, p + n + Len(pat.open), p + n + Len(pat.open) + m - 1),
                  shape |-> pat.shape] >>,
   next |-> p + n + Len(pat.open) + m + Len(pat.close)]

CONNECTION_PATTERNS ==
  << [pattern |-> <<"-", ".", "-", ">">>, type |-> "dotted"],
     [pattern |-> <<"=", "=", ">">>,      type |-> "thick"],
     [pattern |-> <<"-", "-", "-">>,      type |-> "dashed"],
     [pattern |-> <<"-", "-", ">">>,      type |-> "arrow"] >>

\* An anchored connection pattern at position p; the unescaped "." of /-.->/
\* stands for any character.
connectionMatches(s, p, pattern) ==
  /\ p + Len(pattern) - 1 <= Len(s)
  /\ \A i \in 1..Len(pattern) : pattern[i] = "." \/ s[p + i - 1] = pattern[i]

matchingConnections(s, p) ==
  { i \in 1..Len(CONNECTION_PATTERNS) :
      connectionMatches(s, p, CONNECTION_PATTERNS[i].pattern) }

First(set) == CHOOSE i \in set : \A j \in set : i <= j

\* One round of the loop of tokenizeLine at position p: the token pushed, if
\* any, and the next position.
nextToken(s, p, shapes, connections) ==
  IF s[p] \in Whitespace THEN [tokens |-> <<>>, next |-> p + RunIn(s, p, Whitespace)]
  ELSE IF shapes # {}
    THEN nodeToken(s, p, SHAPE_PATTERNS[First(shapes)], idLen(s, p),
                   labelLen(s, p, SHAPE_PATTERNS[First(shapes)]))
  ELSE IF connections # {}
    THEN [tokens |-> << [type |-> "connection",
                         value |-> CONNECTION_PATTERNS[First(connections)].type] >>,
          next |-> p + Len(CONNECTION_PATTERNS[First(connections)].pattern)]
  ELSE IF s[p] = "|" /\ RunUntil(s, p + 1, "|") <= Len(s) - p - 1
    THEN [tokens |-> << [type |-> "label",
                         value |-> SubSeq(s, p + 1, p + RunUntil(s, p + 1, "|"))] >>,
          next |-> p + RunUntil(s, p + 1, "|") + 2]
  ELSE IF idLen(s, p) > 0
    THEN [tokens |-> << [type |-> "identifier", value |-> SubSeq(s, p, p + idLen(s, p) - 1)] >>,
          next |-> p + idLen(s, p)]
  ELSE [tokens |-> <<>>, next |-> p + 1]

RECURSIVE tokenizeFrom(_, _)
tokenizeRest(s, r) == r.tokens \o tokenizeFrom(s, r.next)
tokenizeFrom(s, p) ==
  IF p > Len(s) THEN <<>>
  ELSE tokenizeRest(s, nextToken(s, p, matchingShapes(s, p), matchingConnections(s, p)))

tokenizeLine(line) == tokenizeFrom(line, 1)

SelectTokens(tokens, types) ==
  SelectSeq(tokens, LAMBDA t : t.type \in types)

\* The node a node token or an identifier token stands for.
nodeDataOf(t) ==
  IF t.type = "node" THEN [id |-> t.id, label |-> t.label, shape |-> t.shape]
  ELSE [id |-> t.value, label |-> t.value, shape |-> "rectangle"]

LastValueOr(tokens, default) ==
  IF tokens = <<>> THEN default ELSE tokens[Len(tokens)].value

\* parseEdgeFromTokens: null for fewer than three tokens or fewer than two
\* nodes, else all the nodes and the edge between the first two.
parseEdgeFromTokens(tokens) ==
  LET nodeTokens == SelectTokens(tokens, {"node", "identifier"})
  IN IF Len(tokens) < 3 \/ Len(nodeTokens) < 2
     THEN [isNull |-> TRUE, nodes |-> <<>>, edges |-> <<>>]
     ELSE [isNull |-> FALSE,
           nodes |-> [i \in 1..Len(nodeTokens) |-> nodeDataOf(nodeTokens[i])],
           edges |-> << [from |-> nodeDataOf(nodeTokens[1]).id,
                         to |-> nodeDataOf(nodeTokens[2]).id,
                         type |-> LastValueOr(SelectTokens(tokens, {"connection"}), "arrow"),
                         label |-> LastValueOr(SelectTokens(tokens, {"label"}), undefined)] >>]

\* The forEach over the nodes of one line: a node is added unless its id
\* has been processed.
RECURSIVE addNewNodes(_, _)
addNewNodes(nodes, found) ==
  IF found = <<>> THEN nodes
  ELSE addNewNodes(IF \E i \in 1..Len(nodes) : nodes[i].id = Head(found).id
                   THEN nodes ELSE Append(nodes, Head(found)),
                   Tail(found))

processLine(ast, edgeResult) ==
  [ast EXCEPT !.nodes = addNewNodes(@, edgeResult.nodes),
              !.edges = @ \o edgeResult.edges]

RECURSIVE processLines(_, _)
processLines(ast, lines) ==
  IF lines = <<>> THEN ast
  ELSE processLines(processLine(ast, parseEdgeFromTokens(tokenizeLine(Head(lines)))),
                    Tail(lines))

\* String.prototype.trim on one line.
trim(line) ==
  LET inked == { k \in 1..Len(line) : line[k] \notin Whitespace }
  IN IF inked = {} THEN <<>>
     ELSE SubSeq(line, First(inked), CHOOSE k \in inked : \A j \in inked : j <= k)

\* input.trim().split("\n"): the lines without the blank ones at either end.
trimmedLines(text) ==
  LET inked == { k \in 1..Len(text) : trim(text[k]) # <<>> }
  IN IF inked = {} THEN << <<>> >>
     ELSE SubSeq(text, First(inked), CHOOSE k \in inked : \A j \in inked : j <= k)

flowchart == <<"f", "l", "o", "w", "c", "h", "a", "r", "t">>

DirectionChars ==
  [d \in Directions |->
     CASE d = "TD" -> <<"T", "D">> [] d = "TB" -> <<"T", "B">> [] d = "BT" -> <<"B", "T">>
       [] d = "RL" -> <<"R", "L">> [] OTHER -> <<"L", "R">>]

\* /^flowchart\s+(TD|TB|BT|RL|LR)$/ on the trimmed header line: the
\* directions it matches (one or none).
headerMatch(headerLine) ==
  { d \in Directions :
      /\ StartsWith(headerLine, 1, flowchart)
      /\ RunIn(headerLine, Len(flowchart) + 1, Whitespace) > 0
      /\ SubSeq(headerLine, Len(flowchart) + 1 + RunIn(headerLine, Len(flowchart) + 1, Whitespace),
                Len(headerLine)) = DirectionChars[d] }

parseLines(lines, directions) ==
  IF directions = {} THEN [success |-> FALSE, error |-> "Invalid flowchart header"]
  ELSE [success |-> TRUE,
        data |-> processLines([diagramType |-> [type |-> "flowchart",
                                                direction |-> CHOOSE d \in directions : TRUE],
                               nodes |-> <<>>, edges |-> <<>>],
                              Tail(lines))]

parseMermaid(input) ==
  parseLines(trimmedLines(input), headerMatch(trim(trimmedLines(input)[1])))

connectorOf(type) ==
  CASE type = "arrow" -> <<"-", "-", ">">>
    [] type = "line" -> <<"-", "-", "-">>
    [] type = "thick" -> <<"=", "=", ">">>
    [] type = "dotted" -> <<"-", ".", "-", ">">>
    [] type = "dashed" -> <<"-", "-", "-">>

nodeLine(node, symbols) ==
  <<" ", " ">> \o node.id \o symbols.open \o node.label \o symbols.close

edgeLine(edge) ==
  <<" ", " ">> \o edge.from \o <<" ">> \o connectorOf(edge.type)
    \o (IF edge.label \in {undefined, <<>>} THEN <<>> ELSE <<"|">> \o edge.label \o <<"|">>)
    \o <<" ">> \o edge.to

\* Array.prototype.join("\n") as lines: an empty array joins to one empty line.
joinLines(lines) == IF lines = <<>> THEN << <<>> >> ELSE lines

\* mermaidRenderer: header, node lines and edge lines joined by newlines.
mermaidRenderer(ast) ==
  << flowchart \o <<" ">> \o DirectionChars[ast.diagramType.direction] >>
    \o joinLines([i \in 1..Len(ast.nodes) |->
                    nodeLine(ast.nodes[i], getNodeShapeSymbols(ast.nodes[i].shape))])
    \o joinLines([i \in 1..Len(ast.edges) |-> edgeLine(ast.edges[i])])

\* The lines the texts are made of.
SampleLines ==
  { <<" ", " ", "A", "[", "S", "]", " ", "-", "-", ">", " ", "B", "(", "E", ")">>,
    <<" ", " ", "A", " ", "-", "-", ">", " ", "B", " ", "-", "-", ">", " ", "C">>,
    <<" ", " ", "B", " ", "-", "-", ">", "|", "y", "|", " ", "C", "{", "D", "}">>,
    <<" ", " ", "A", "[", "S", "]">>,
    <<"C", " ", "-", ".", "-", ">", " ", "A">>,
    <<"A", "(", "(", "x", ")", ")", " ", "=", "=", ">", " ", "B", "{", "{", "h", "}", "}">>,
    <<"C", "(", "[", "s", "]", ")", " ", "-", "-", "-", " ", "A", "1">> }

SampleHeaders ==
  { flowchart \o <<" ">> \o DirectionChars[d] : d \in Directions }
    \cup { <<"g", "r", "a", "p", "h", " ", "T", "D">>,
           <<" ">> \o flowchart \o <<" ", "\t">> \o DirectionChars["LR"] \o <<" ">> }

InitRoundTrip ==
  /\ layoutCache = EmptyCache
  /\ history = <<>>
  /\ \E header \in SampleHeaders, n \in 0..MaxLines :
       \E lines \in [1..n -> SampleLines] :
          pending = << <<header>> \o lines >>

\* parseMermaid(original)
ParseText ==
  /\ pending # <<>>
  /\ history = <<>>
  /\ history' = << parseMermaid(pending[1]) >>
  /\ pending' = <<>>
  /\ UNCHANGED layoutCache

\* renderMermaid(parseResult.data)
RenderMermaid ==
  /\ Len(history) = 1
  /\ history[1].success
  /\ history' = Append(history, [success |-> TRUE, data |-> mermaidRenderer(history[1].data)])
  /\ UNCHANGED <<pending, layoutCache>>

\* parseMermaid(renderResult.data)
ParseRendered ==
  /\ Len(history) = 2
  /\ history' = Append(history, parseMermaid(history[2].data))
  /\ UNCHANGED <<pending, layoutCache>>

NextRoundTrip == ParseText \/ RenderMermaid \/ ParseRendered

SpecRoundTrip == InitRoundTrip /\ [][NextRoundTrip]_vars

\* C16: for every text parseMermaid accepts, parsing the Mermaid rendering
\* of its AST succeeds and gives an AST with as many nodes and as many edges
\* and with the same diagram type and direction.
C16_RoundTripKeepsCounts ==
  Len(history) = 3 =>
    /\ history[3].success
    /\ Len(history[3].data.nodes) = Len(history[1].data.nodes)
    /\ Len(history[3].data.edges) = Len(history[1].data.edges)
    /\ history[3].data.diagramType = history[1].data.diagramType

\* ---- analyzeAST: depth and cycle detection (SpecAnalyze) ----
\* The largest number of edges of an analysed diagram.
MaxAnalyzedEdges == 3

\* dfs of calculateDepth and its loop over the outgoing edges, in edge
\* order; visited and maxDepth are shared by all the calls.
RECURSIVE dfs(_, _, _, _)
RECURSIVE dfsEdges(_, _, _, _)
dfs(ast, st, nodeId, depth) ==
  IF nodeId \in st.visited THEN st
  ELSE dfsEdges(ast, [visited |-> st.visited \cup {nodeId},
                      maxDepth |-> Max(st.maxDepth, depth)],
                TargetsFrom(ast.edges, nodeId), depth + 1)
dfsEdges(ast, st, targets, depth) ==
  IF targets = <<>> THEN st
  ELSE dfsEdges(ast, dfs(ast, st, Head(targets), depth), Tail(targets), depth)

\* The loop over the nodes: a dfs from every node that no edge points to.
RECURSIVE depthFromRoots(_, _, _)
depthFromRoots(ast, st, nodes) ==
  IF nodes = <<>> THEN st
  ELSE depthFromRoots(ast,
                      IF CountTo(ast.edges, Head(nodes).id) = 0
                      THEN dfs(ast, st, Head(nodes).id, 1) ELSE st,
                      Tail(nodes))

calculateDepth(ast) == depthFromRoots(ast, [visited |-> {}, maxDepth |-> 0], ast.nodes).maxDepth

\* hasCycle of detectCycles and its loop over the outgoing edges; found is
\* the value true returned up through all the calls.
RECURSIVE hasCycle(_, _, _)
RECURSIVE hasCycleEdges(_, _, _, _)
hasCycle(ast, st, nodeId) ==
  IF nodeId \in st.recursionStack THEN [st EXCEPT !.found = TRUE]
  ELSE IF nodeId \in st.visited THEN st
  ELSE hasCycleEdges(ast, [st EXCEPT !.visited = @ \cup {nodeId},
                                     !.recursionStack = @ \cup {nodeId}],
                     TargetsFrom(ast.edges, nodeId), nodeId)
hasCycleEdges(ast, st, targets, nodeId) ==
  IF st.found THEN st
  ELSE IF targets = <<>> THEN [st EXCEPT !.recursionStack = @ \ {nodeId}]
  ELSE hasCycleEdges(ast, hasCycle(ast, st, Head(targets)), Tail(targets), nodeId)

\* The loop over the nodes, left at the first cycle found.
RECURSIVE cyclesFromNodes(_, _, _)
cyclesFromNodes(ast, st, nodes) ==
  IF st.found \/ nodes = <<>> THEN st
  ELSE cyclesFromNodes(ast, hasCycle(ast, st, Head(nodes).id), Tail(nodes))

detectCycles(ast) ==
  cyclesFromNodes(ast, [visited |-> {}, recursionStack |-> {}, found |-> FALSE],
                  ast.nodes).found

\* analyzeAST; the edges of these diagrams are all of the type arrow.
analyzeAST(ast) ==
  LET shapes == { ast.nodes[i].shape : i \in 1..Len(ast.nodes) }
  IN [complexity |-> Len(ast.nodes) + Len(ast.edges) + Cardinality(shapes),
      nodeShapes |-> [sh \in shapes |->
                        Cardinality({ i \in 1..Len(ast.nodes) : ast.nodes[i].shape = sh })],
      edgeTypes |-> [t \in (IF ast.edges = <<>> THEN {} ELSE {"arrow"}) |-> Len(ast.edges)],
      depth |-> calculateDepth(ast),
      cycleDetected |-> detectCycles(ast)]

\* The node lists analysed: one to three nodes, and five for the diamond.
AnalyzedNodes ==
  { [i \in 1..n |-> Node(IdOrder[i], 0, IF i = 2 THEN "rhombus" ELSE "rectangle")] :
      n \in {1, 2, 3, 5} }

\* The sequences of up to len different pairs, in every order.
RECURSIVE OrderedEdgeLists(_, _)
OrderedEdgeLists(pairs, len) ==
  IF len = 0 THEN { <<>> }
  ELSE LET shorter == OrderedEdgeLists(pairs, len - 1)
       IN shorter \cup
          { Append(q[1], q[2]) :
              q \in { r \in shorter \X Range(pairs) :
                        Len(r[1]) = len - 1 /\ r[2] \notin Range(r[1]) } }

DiamondEdges ==
  { Edge("A", "B"), Edge("B", "C"), Edge("B", "D"), Edge("C", "E"), Edge("D", "E") }

\* The diamond A -> B, B -> C, B -> D, C -> E, D -> E in every edge order.
DiamondEdgeLists ==
  { s \in [1..5 -> DiamondEdges] : Range(s) = DiamondEdges }

AnalyzedEdgeLists(nodes) ==
  IF Len(nodes) = 5 THEN DiamondEdgeLists
  ELSE OrderedEdgeLists(EdgePairs(nodes), MaxAnalyzedEdges)

InitAnalyze ==
  /\ layoutCache = EmptyCache
  /\ history = <<>>
  /\ \E nodes \in AnalyzedNodes :
       \E edges \in AnalyzedEdgeLists(nodes) :
          pending = << Diagram("TD", nodes, edges) >>

AnalyzeAST ==
  /\ pending # <<>>
  /\ history' = Append(history, [ast |-> pending[1], analysis |-> analyzeAST(pending[1])])
  /\ pending' = Tail(pending)
  /\ UNCHANGED layoutCache

NextAnalyze == AnalyzeAST

SpecAnalyze == InitAnalyze /\ [][NextAnalyze]_vars

\* The ids one or more edges away from an id of the set, over paths of at
\* most k edges.
RECURSIVE ReachFrom(_, _, _)
ReachFrom(edges, from, k) ==
  IF k = 0 THEN {}
  ELSE LET next == { edges[i].to : i \in { j \in 1..Len(edges) : edges[j].from \in from } }
       IN next \cup ReachFrom(edges, next, k - 1)

HasDirectedCycle(edges) ==
  \E i \in 1..Len(edges) : edges[i].from \in ReachFrom(edges, {edges[i].from}, Len(edges))

\* The number of nodes on the longest directed path from an id, in edges
\* without a cycle.
RECURSIVE LongestPathFrom(_, _)
LongestPathFrom(edges, id) ==
  LET lengths == { LongestPathFrom(edges, edges[i].to) :
                     i \in { j \in 1..Len(edges) : edges[j].from = id } }
  IN 1 + (IF lengths = {} THEN 0 ELSE CHOOSE m \in lengths : \A l \in lengths : l <= m)

NoDanglingEdge(ast) ==
  \A i \in 1..Len(ast.edges) : HasNode(ast, ast.edges[i].from) /\ HasNode(ast, ast.edges[i].to)

\* C17: analyzeAST reports cycleDetected = TRUE exactly when the edges of
\* the diagram contain a directed cycle, a self-edge included.
C17_CycleDetectedIffCycle ==
  \A c \in 1..Len(history) :
    history[c].analysis.cycleDetected = HasDirectedCycle(history[c].ast.edges)

\* C18: for a diagram without cycles (here: whose edges also all join
\* existing nodes) the depth reported is the number of nodes on the longest
\* directed path that starts at a node with no incoming edge, whatever the
\* order of the edges.
C18_DepthIsLongestPath ==
  \A c \in 1..Len(history) :
    LET ast == history[c].ast
        roots == { id \in NodeIds(ast) : CountTo(ast.edges, id) = 0 }
        lengths == { LongestPathFrom(ast.edges, id) : id \in roots }
    IN (~HasDirectedCycle(ast.edges) /\ NoDanglingEdge(ast)) =>
         history[c].analysis.depth = CHOOSE m \in lengths : \A l \in lengths : l <= m

\* ---- further claims about one render call (Spec) ----

Predecessors(ast, id) ==
  { ast.edges[i].from : i \in { j \in 1..Len(ast.edges) : ast.edges[j].to = id } }

\* C19: in a diagram without cycles whose edges all join existing nodes,
\* every node without incoming edge is in layer 0 and every other node is in
\* the layer right after the highest layer of its predecessors.
C19_LayerAfterLastPredecessor ==
  \A c \in Calls :
    LET h == history[c]
        layers == LayersOf(h)
    IN (~HasDirectedCycle(h.ast.edges) /\ NoDanglingEdge(h.ast)) =>
         \A id \in NodeIds(h.ast) :
           LET before == { LayerIndex(layers, p) : p \in Predecessors(h.ast, id) }
           IN LayerIndex(layers, id) =
                IF before = {} THEN 1
                ELSE 1 + CHOOSE m \in before : \A l \in before : l <= m

\* A rendered diagram A -> B, A -> C, B -> C: C has predecessors in two
\* layers and is in the third.
C19_Witness ==
  \E c \in Calls :
    LET h == history[c]
    IN /\ h.ast.edges = <<Edge("A", "B"), Edge("A", "C"), Edge("B", "C")>>
       /\ NodeIds(h.ast) = {"A", "B", "C"}
       /\ LayerIndex(LayersOf(h), "C") = 3

\* C20: the position map has an entry only for the ids that are keys of the
\* node map; an id that occurs only as the end of an edge is in no layer and
\* has no position.
C20_PositionsOnlyForNodes ==
  \A c \in Calls :
    LET h == history[c]
    IN /\ DOMAIN h.layout.layout \subseteq NodeIds(h.ast)
       /\ Range(Flatten(LayersOf(h))) \subseteq NodeIds(h.ast)

\* The coordinate of a position along the axis on which the layers follow
\* one another: y for the vertical directions, x for LR and RL.
LayerAxis(h, pos) == IF isVerticalDir(h.ast.direction) THEN pos.y ELSE pos.x

StrictlyBetween(v, a, b) == (a < v /\ v < b) \/ (b < v /\ v < a)

\* C21: for every routed edge between different layers, in every direction
\* and also when it leads back to an earlier layer, the exit port and the
\* entry port lie, along the layer axis, strictly between the centre of the
\* source and the centre of the target.
C21_PortsFaceOtherNode ==
  \A c \in Calls :
    LET h == history[c]
    IN \A i \in 1..Len(h.ast.edges) :
         LET edge == h.ast.edges[i]
         IN (Routed(h, i) /\ ~SameLayerEdge(h, edge)) =>
              LET from == LayerAxis(h, h.layout.layout[edge.from])
                  to == LayerAxis(h, h.layout.layout[edge.to])
              IN /\ StrictlyBetween(LayerAxis(h, portsOf(h.ast, h.layout, edge).exitPort), from, to)
                 /\ StrictlyBetween(LayerAxis(h, portsOf(h.ast, h.layout, edge).entryPort), from, to)

\* The layer-axis coordinate of the nodes of a layer.
LayerCoord(h, layer) == LayerAxis(h, h.layout.layout[layer[1]])

\* C22: the first layer's layer-axis coordinate is the initial offset 60,
\* and each later layer's coordinate is the previous layer's coordinate
\* plus max(1.5 x nodeSpacing, half of the previous layer's largest
\* layer-dimension + 40 + half of this layer's largest layer-dimension).
C22_LayerCoordinates ==
  \A c \in Calls :
    LET h == history[c]
        layers == LayersOf(h)
    IN \A li \in 1..Len(layers) :
         LayerCoord(h, layers[li]) =
           IF li = 1 THEN Px(INITIAL_LAYER_OFFSET)
           ELSE LayerCoord(h, layers[li - 1])
                  + Max((Px(h.config.nodeSpacing) * 3) \div 2,
                        maxLayerSizeOf(h.ast, layers[li - 1]) \div 2 + Px(40)
                          + maxLayerSizeOf(h.ast, layers[li]) \div 2)

\* The coordinate of a position along the axis on which the nodes of one
\* layer are spread: x for the vertical directions, y for LR and RL.
SpreadAxis(h, pos) == IF isVerticalDir(h.ast.direction) THEN pos.x ELSE pos.y

\* C23: every layer is centred on the centre of the canvas the layout
\* returns: the centres of its first and its last node add up to the canvas
\* width (TD, TB, BT) or the canvas height (LR, RL).
C23_LayersCentredOnCanvas ==
  \A c \in Calls :
    LET h == history[c]
        layers == LayersOf(h)
    IN \A li \in 1..Len(layers) :
         SpreadAxis(h, h.layout.layout[layers[li][1]])
           + SpreadAxis(h, h.layout.layout[layers[li][Len(layers[li])]])
         = IF isVerticalDir(h.ast.direction) THEN h.layout.canvasWidth
           ELSE h.layout.canvasHeight

\* The state in which the while loop over the queue ends.
QueueEmptied(ast) ==
  bfsLoop(ast, [queue |-> initialQueue(ast), visited |-> {},
                inDegree |-> inDegreeOf(ast), layers |-> <<>>,
                currentLayer |-> <<>>])

NodeIndex(ast, id) == CHOOSE i \in 1..Len(ast.nodes) : ast.nodes[i].id = id

\* The layers are those the traversal built, followed, when nodes were left
\* unvisited, by one layer of exactly these nodes in insertion order.
CatchAllLayerOnly(ast, st, layers, unvisited) ==
  IF unvisited = {} THEN layers = st.layers
  ELSE /\ Len(layers) = Len(st.layers) + 1
       /\ SubSeq(layers, 1, Len(st.layers)) = st.layers
       /\ LET last == layers[Len(layers)]
          IN /\ Range(last) = unvisited
             /\ Len(last) = Cardinality(unvisited)
             /\ \A i \in 1..(Len(last) - 1) :
                  NodeIndex(ast, last[i]) < NodeIndex(ast, last[i + 1])

\* C24: when the layering queue empties, the nodes never visited form
\* exactly one additional layer, the last, in node insertion order; when
\* every node was visited no layer is added.
C24_OneCatchAllLayer ==
  \A c \in Calls :
    \E st \in { QueueEmptied(history[c].ast) } :
      CatchAllLayerOnly(history[c].ast, st, LayersOf(history[c]),
                        NodeIds(history[c].ast) \ st.visited)

\* A rendered diagram in which the traversal built a layer and left two
\* nodes unvisited.
C24_Witness ==
  \E c \in Calls :
    \E st \in { QueueEmptied(history[c].ast) } :
      /\ st.layers # <<>>
      /\ Cardinality(NodeIds(history[c].ast) \ st.visited) >= 2

\* The path and collisions with which the retry loop of an edge starts.
BeforeRetries(ast, lr, edge, ports, isVertical) ==
  promoteStraight(
    [current |-> generateOrthogonalPath(ports.exitPort, ports.entryPort, isVertical),
     collisions |-> findCollidingNodes(ast,
                      generateOrthogonalPath(ports.exitPort, ports.entryPort, isVertical),
                      {edge.from, edge.to}, lr),
     retries |-> 0, scans |-> 1, promoted |-> FALSE],
    ast, {edge.from, edge.to}, lr, isVertical)

\* The loop's state after k passes.
RECURSIVE AfterRetries(_, _, _, _, _, _)
AfterRetries(av, k, ast, excludeIds, lr, isVertical) ==
  IF k = 0 THEN av
  ELSE retryStep(AfterRetries(av, k - 1, ast, excludeIds, lr, isVertical),
                 ast, excludeIds, lr, isVertical)

\* Distance of the detour coordinate from the exit port on the spread axis.
DetourDistance(av, isVertical) ==
  Abs(spreadOf(av.current[2], isVertical) - spreadOf(av.current[1], isVertical))

WidenedByEveryRetry(av0, retries, ast, excludeIds, lr, isVertical) ==
  \A k \in 1..retries :
    DetourDistance(AfterRetries(av0, k, ast, excludeIds, lr, isVertical), isVertical)
      > DetourDistance(AfterRetries(av0, k - 1, ast, excludeIds, lr, isVertical), isVertical)

\* C25: during collision retries the distance between the path's detour
\* coordinate and the exit port's spread-axis coordinate is strictly larger
\* after each retry than before it.
C25_DetourWidenedByEveryRetry ==
  \A c \in Calls :
    \A i \in 1..Len(history[c].ast.edges) :
      (Routed(history[c], i) /\ ~SameLayerEdge(history[c], history[c].ast.edges[i])) =>
        WidenedByEveryRetry(
          BeforeRetries(history[c].ast, history[c].layout, history[c].ast.edges[i],
                        portsOf(history[c].ast, history[c].layout, history[c].ast.edges[i]),
                        isVerticalDir(history[c].ast.direction)),
          history[c].paths[i].retries, history[c].ast,
          {history[c].ast.edges[i].from, history[c].ast.edges[i].to},
          history[c].layout, isVerticalDir(history[c].ast.direction))

\* A position moved by d along the axis on which the layers follow each
\* other, and along the axis on which a layer's nodes are spread.
AlongLayerAxis(h, pos, d) ==
  IF isVerticalDir(h.ast.direction) THEN [x |-> pos.x, y |-> pos.y + d]
  ELSE [x |-> pos.x + d, y |-> pos.y]

AlongSpreadAxis(h, pos, d) ==
  IF isVerticalDir(h.ast.direction) THEN [x |-> pos.x + d, y |-> pos.y]
  ELSE [x |-> pos.x, y |-> pos.y + d]

\* Half of a node's bounding box on either axis, plus 2 units.
LayerReach(h, id) ==
  (IF isVerticalDir(h.ast.direction) THEN nodeDims(h.ast, id).height
   ELSE nodeDims(h.ast, id).width) \div 2 + Px(2)

SpreadReach(h, id) ==
  (IF isVerticalDir(h.ast.direction) THEN nodeDims(h.ast, id).width
   ELSE nodeDims(h.ast, id).height) \div 2 + Px(2)

\* The two ends have the same coordinate on the layer axis.
InOneLayer(h, edge) ==
  LayerAxis(h, h.layout.layout[edge.from]) = LayerAxis(h, h.layout.layout[edge.to])

PortsTwoOutside(h, edge, from, to, exit, entry) ==
  IF ~InOneLayer(h, edge)
  THEN LET forward == IF isReversedDir(h.ast.direction) THEN -1 ELSE 1
       IN /\ exit = AlongLayerAxis(h, from, forward * LayerReach(h, edge.from))
          /\ entry = AlongLayerAxis(h, to, (-forward) * LayerReach(h, edge.to))
  ELSE IF edge.from # edge.to
  THEN LET toward == IF SpreadAxis(h, to) > SpreadAxis(h, from) THEN 1 ELSE -1
       IN /\ SpreadAxis(h, to) # SpreadAxis(h, from)
          /\ exit = AlongSpreadAxis(h, from, toward * SpreadReach(h, edge.from))
          /\ entry = AlongSpreadAxis(h, to, (-toward) * SpreadReach(h, edge.to))
  ELSE /\ \E side \in {-1, 1} : exit = AlongSpreadAxis(h, from, side * SpreadReach(h, edge.from))
       /\ \E side \in {-1, 1} : entry = AlongSpreadAxis(h, to, side * SpreadReach(h, edge.to))

\* C26: every path starts and ends at a port exactly 2 units outside the
\* node's bounding box on a line through its centre: for a cross-layer edge
\* the exit port is past the source's far face and the entry port before
\* the target's near face along the layer axis (both the other way round in
\* BT and RL); for an edge within a layer both ports are on the faces that
\* face the other node.
C26_PortsTwoUnitsOutside ==
  \A c \in Calls :
    \A i \in 1..Len(history[c].ast.edges) :
      Routed(history[c], i) =>
        PortsTwoOutside(history[c], history[c].ast.edges[i],
                        history[c].layout.layout[history[c].ast.edges[i].from],
                        history[c].layout.layout[history[c].ast.edges[i].to],
                        history[c].paths[i].current[1],
                        history[c].paths[i].current[Len(history[c].paths[i].current)])

\* A diagram drawn right to left with a routed edge across layers and a
\* routed edge between two different nodes of one layer.
C26_Witness ==
  \E c \in Calls :
    /\ history[c].ast.direction = "RL"
    /\ \E i, j \in 1..Len(history[c].ast.edges) :
         /\ Routed(history[c], i) /\ Routed(history[c], j)
         /\ ~InOneLayer(history[c], history[c].ast.edges[i])
         /\ InOneLayer(history[c], history[c].ast.edges[j])
         /\ history[c].ast.edges[j].from # history[c].ast.edges[j].to

\* C27: when the source and target positions of an edge coincide (a
\* self-edge, for example), the exit port with which its path starts is the
\* source node's position itself.
C27_CoincidentExitAtSource ==
  \A c \in Calls :
    \A i \in 1..Len(history[c].ast.edges) :
      (/\ Routed(history[c], i)
       /\ history[c].layout.layout[history[c].ast.edges[i].from]
            = history[c].layout.layout[history[c].ast.edges[i].to]) =>
        history[c].paths[i].current[1]
          = history[c].layout.layout[history[c].ast.edges[i].from]

\* ---- a diagram rendered twice, its edges in two orders ----
\* The longest edge sequence that is reordered.
MaxReorderedEdges == 2

ReorderedNodes == { nodes \in NodeLists : Len(nodes) >= 2 /\ Len(nodes) <= 3 }

\* Every pair of node ids as an edge.
NodePairs(nodes) ==
  [k \in 1..(Len(nodes) * Len(nodes)) |->
     Edge(nodes[((k - 1) \div Len(nodes)) + 1].id, nodes[((k - 1) % Len(nodes)) + 1].id)]

SameEdgesReordered(e1, e2) == Len(e1) = Len(e2) /\ Range(e1) = Range(e2)

InitReorder ==
  /\ layoutCache = EmptyCache
  /\ history = <<>>
  /\ \E nodes \in ReorderedNodes, d \in {"TD", "LR"} :
       \E e1, e2 \in OrderedEdgeLists(NodePairs(nodes), MaxReorderedEdges) :
          /\ SameEdgesReordered(e1, e2)
          /\ pending = << [ast |-> Diagram(d, nodes, e1), config |-> Config(800, 600, 120)],
                          [ast |-> Diagram(d, nodes, e2), config |-> Config(800, 600, 120)] >>

RenderReordered == Call({ Tail(pending) })

NextReorder == RenderReordered

SpecReorder == InitReorder /\ [][NextReorder]_vars

\* C28: two renderings of a diagram that differ only in the order of the
\* edge sequence give every node the same position and the canvas the same
\* dimensions.
C28_EdgeOrderKeepsPositions ==
  \A c1, c2 \in Calls :
    (/\ history[c1].ast.nodes = history[c2].ast.nodes
     /\ history[c1].ast.direction = history[c2].ast.direction
     /\ history[c1].config = history[c2].config
     /\ SameEdgesReordered(history[c1].ast.edges, history[c2].ast.edges)) =>
      SameResult(history[c1], history[c2])

\* 7.2 units for each character of the label, and the width the text asks for.
TextWidthOf(len) == (len * 72 * Scale) \div 10

ReqWidthOf(len) == Max(Px(60), TextWidthOf(len) + Px(16))

\* w is 1.4 x req, to the precision of the coordinates.
IsScaledBy14(w, req) == 10 * w <= 14 * req /\ 14 * req < 10 * (w + 1)

\* C29: for a non-empty label a rectangle, and a shape without a rule of
\* its own, is max(60, textWidth + 16) wide, a stadium reqWidth + 20 and a
\* rhombus 1.4 x reqWidth, each 40 high.
C29_LabelledDimensions ==
  \A c \in Calls :
    history[c].len > 0 =>
      /\ history[c].shape \in {"rectangle", "hexagon"} =>
           /\ history[c].dimensions.width = Max(Px(60), TextWidthOf(history[c].len) + Px(16))
           /\ history[c].dimensions.height = Px(40)
      /\ history[c].shape = "stadium" =>
           /\ history[c].dimensions.width = ReqWidthOf(history[c].len) + Px(20)
           /\ history[c].dimensions.height = Px(40)
      /\ history[c].shape = "rhombus" =>
           /\ IsScaledBy14(history[c].dimensions.width, ReqWidthOf(history[c].len))
           /\ history[c].dimensions.height = Px(40)

CacheOnlyGrows ==
  /\ \A k \in DOMAIN layoutCache :
       k \in DOMAIN layoutCache' /\ layoutCache'[k] = layoutCache[k]
  /\ Cardinality(DOMAIN layoutCache') <= Cardinality(DOMAIN layoutCache) + 1
  /\ (pending # <<>> /\ pending[1].ast.nodes = <<>>) => layoutCache' = layoutCache

\* C30: a render call leaves every entry of the layout cache in place and
\* unchanged, adds at most one entry, and adds none for an empty diagram.
C30_CacheOnlyGrows == [][CacheOnlyGrows]_vars

\* Three calls made: one stored a layout, a later one asked for the same
\* key, and the cache holds a second entry as well.
C30_Witness ==
  /\ Cardinality(DOMAIN layoutCache) >= 2
  /\ \E c1, c2 \in Calls :
       /\ c1 < c2
       /\ history[c1].ast.nodes # <<>>
       /\ cacheKeyOf(history[c1].ast, history[c1].config)
            = cacheKeyOf(history[c2].ast, history[c2].config)

====
